---- MODULE Spec2Model ----
(***************************************************************************)
(* A model of the frida_web client library: the D-Bus call/signal bus      *)
(* (BrowserDBusClient), the per-attachment Session with its single-flight  *)
(* outbound batching, and the Script with its embedded RPC sub-protocol.   *)
(*                                                                         *)
(* One action is one JavaScript macrotask (a caller's API call, a          *)
(* transport frame, a timer) together with every promise continuation it   *)
(* schedules: continuations are queued in `micro` while the macrotask runs *)
(* and drained, in the order they were scheduled, before the action ends.  *)
(***************************************************************************)
EXTENDS Integers, Sequences, FiniteSets, TLC

\* Bounds of the exploration.
MaxCalls == 3
MaxPosts == 3

SessionIds == {"a", "b"}
MaxTransports == 2
MaxOps == 2
MaxFrames == 3
Handles == {1, 2}
UserHandlers == {"u1", "u2"}
\* A user handler of script.message that throws, and the values of
\* script.logHandler: the default one, and one of the user that throws.
ThrowingUserHandlers == {"u3"}
LogHandlers == {"log", "thrower"}
ThrowingLogHandlers == {"thrower"}

----------------------------------------------------------------------------
(* JavaScript values that cross JSON.stringify / JSON.parse.               *)

Str(s) == [k |-> "str", s |-> s]
Num(n) == [k |-> "num", n |-> n]
Arr(items) == [k |-> "arr", items |-> items]
Obj(pairs) == [k |-> "obj", pairs |-> pairs]
Null == [k |-> "null"]
Undefined == [k |-> "undefined"]

\* value.key of a JavaScript value: undefined unless an object holds the key.
Get(v, key) ==
    IF v.k = "obj" /\ \E i \in 1..Len(v.pairs) : v.pairs[i][1] = key
    THEN v.pairs[CHOOSE i \in 1..Len(v.pairs) : v.pairs[i][1] = key][2]
    ELSE Undefined

\* array[i] with a 0-based index: undefined past the end.
At(items, i) == IF i + 1 <= Len(items) THEN items[i + 1] ELSE Undefined

RECURSIVE Stringify(_)
RECURSIVE StringifyItems(_, _)
RECURSIVE StringifyPairs(_, _)
StringifyItems(items, i) ==
    IF i > Len(items) THEN <<>>
    ELSE (IF i > 1 THEN <<",">> ELSE <<>>)
         \o Stringify(items[i]) \o StringifyItems(items, i + 1)
StringifyPairs(pairs, i) ==
    IF i > Len(pairs) THEN <<>>
    ELSE (IF i > 1 THEN <<",">> ELSE <<>>)
         \o <<"\"", pairs[i][1], "\"", ":">> \o Stringify(pairs[i][2])
         \o StringifyPairs(pairs, i + 1)
\* JSON.stringify: the text as a sequence of tokens.
Stringify(v) ==
    CASE v.k = "str" -> <<"\"", v.s, "\"">>
      [] v.k = "num" -> <<ToString(v.n)>>
      [] v.k = "null" -> <<"null">>
      [] v.k = "arr" -> <<"[">> \o StringifyItems(v.items, 1) \o <<"]">>
      [] v.k = "obj" -> <<"{">> \o StringifyPairs(v.pairs, 1) \o <<"}">>

SendMessage(payload) == Obj(<<<<"type", Str("send")>>, <<"payload", payload>>>>)
RpcMarker == Str("frida:rpc")

\* The messages a caller posts and a remote script sends in this model.
MsgHello == SendMessage(Obj(<<<<"hello", Num(1)>>>>))
MsgBye == SendMessage(Str("bye"))
MsgLog == Obj(<<<<"type", Str("log")>>, <<"level", Str("info")>>,
                <<"payload", Str("text")>>>>)
MsgSendLog == SendMessage(Obj(<<<<"type", Str("log")>>,
                                <<"payload", Str("inner")>>>>))
MsgError == Obj(<<<<"type", Str("error")>>, <<"description", Str("oops")>>>>)
MsgRpcOk(id) == SendMessage(Arr(<<RpcMarker, Num(id), Str("ok"), Str("result")>>))
MsgRpcError(id) ==
    SendMessage(Arr(<<RpcMarker, Num(id), Str("error"),
                      Str("emsg"), Str("ename"), Str("estack")>>))
MsgRpcCall(id, name) ==
    Arr(<<RpcMarker, Num(id), Str("call"), Str(name), Arr(<<>>)>>)

RequestIds == 1..2
PlainMessages == {MsgHello, MsgBye}
InboundMessages ==
    PlainMessages \cup {MsgLog, MsgSendLog, MsgError}
    \cup {MsgRpcOk(i) : i \in RequestIds} \cup {MsgRpcError(i) : i \in RequestIds}
BadText == <<"{">>
SyntaxError == [k |-> "SyntaxError"]

\* The number a token denotes, for the numbers of this model.
NumberTokens == {<<ToString(n), n>> : n \in 0..(MaxPosts + 1)}

Parsed(v, next) == [ok |-> TRUE, v |-> v, next |-> next]
Failed == [ok |-> FALSE]

\* JSON.parse, by recursive descent over the tokens: the value that starts at
\* token i and the index of the token after it.
RECURSIVE ParseValue(_, _)
RECURSIVE ParseItems(_, _, _)
RECURSIVE ParsePairs(_, _, _)
ParseItems(toks, i, acc) ==
    LET r == ParseValue(toks, i) IN
    IF ~r.ok \/ r.next > Len(toks) THEN Failed
    ELSE IF toks[r.next] = "," THEN ParseItems(toks, r.next + 1, Append(acc, r.v))
    ELSE IF toks[r.next] = "]" THEN Parsed(Arr(Append(acc, r.v)), r.next + 1)
    ELSE Failed
ParsePairs(toks, i, acc) ==
    IF i + 3 > Len(toks) THEN Failed
    ELSE IF toks[i] # "\"" \/ toks[i + 2] # "\"" \/ toks[i + 3] # ":" THEN Failed
    ELSE LET r == ParseValue(toks, i + 4)
             pairs == Append(acc, <<toks[i + 1], r.v>>)
         IN IF ~r.ok \/ r.next > Len(toks) THEN Failed
            ELSE IF toks[r.next] = "," THEN ParsePairs(toks, r.next + 1, pairs)
            ELSE IF toks[r.next] = "}" THEN Parsed(Obj(pairs), r.next + 1)
            ELSE Failed
ParseValue(toks, i) ==
    IF i > Len(toks) THEN Failed
    ELSE CASE toks[i] = "\"" ->
                 IF i + 2 <= Len(toks) /\ toks[i + 2] = "\""
                 THEN Parsed(Str(toks[i + 1]), i + 3)
                 ELSE Failed
           [] toks[i] = "null" -> Parsed(Null, i + 1)
           [] toks[i] = "[" ->
                 IF i + 1 <= Len(toks) /\ toks[i + 1] = "]"
                 THEN Parsed(Arr(<<>>), i + 2)
                 ELSE ParseItems(toks, i + 1, <<>>)
           [] toks[i] = "{" ->
                 IF i + 1 <= Len(toks) /\ toks[i + 1] = "}"
                 THEN Parsed(Obj(<<>>), i + 2)
                 ELSE ParsePairs(toks, i + 1, <<>>)
           [] \E p \in NumberTokens : p[1] = toks[i] ->
                 Parsed(Num((CHOOSE p \in NumberTokens : p[1] = toks[i])[2]),
                        i + 1)
           [] OTHER -> Failed

\* JSON.parse(text): the value of the whole text, or a SyntaxError.
Parse(text) ==
    LET r == ParseValue(text, 1) IN
    IF r.ok /\ r.next = Len(text) + 1 THEN r.v ELSE SyntaxError

----------------------------------------------------------------------------
VARIABLES
    \* BrowserDBusClient
    serialCounter,      \* next serial
    pendingCalls,       \* serial -> the awaiting continuation
    signalHandlers,     \* key -> handlers in registration order
    timers,             \* serials whose 30 s timer has not fired yet
    wire,               \* method calls written to the transport, in order
    settled,            \* serial -> outcomes its caller's promise was given
    lastSignals,        \* the signals of the frame handled by the last step
    handlerLog,         \* plain signal handlers invoked by the last step
    transport,          \* the WebSocket: "open" or "closed"
    ws,                 \* the WebSocket's binaryType, the frames received,
                        \* those whose arrayBuffer() is pending, and the
                        \* frames emitted as "message", in order
    \* Session
    state, lastRxBatchId, pendingMessages, nextSerial, pendingDeliveries,
    scripts,            \* registry: handles in insertion order
    detachedLog,        \* "detached" notifications emitted
    posted,             \* every {serial, record} _postToAgent queued, in order
    \* Script
    scriptState, pendingRequests, nextRequestId,
    listeners,          \* script -> event -> listeners of its emitter
    destroyedCount,     \* "destroyed" emissions per script
    logHandler,         \* script -> its _logHandlerImpl
    userLog,            \* user message handlers invoked by the last step
    logLog,             \* log handler calls of the last step
    rpcLog,             \* script -> requestId -> outcomes of the export call
    \* Client
    sessions,           \* registry of Session ids
    token,              \* TRUE when a token is configured
    hostConnectionRequest,  \* the attempt memoized, 0 for null
    links,              \* transport -> its connection attempt, and its Bus
                        \* while another transport's Bus is in the variables
                        \* above
    focus,              \* the transport whose Bus the variables above hold
    ops                 \* the Client operations started, in order
\* Within a macrotask the World record has two fields more: micro, the
\* promise continuations queued, and exc, TRUE while an exception thrown by
\* a callback propagates.

vars == <<serialCounter, pendingCalls, signalHandlers, timers, wire, settled,
          lastSignals, handlerLog, transport,
          state, lastRxBatchId, pendingMessages, nextSerial, pendingDeliveries,
          scripts, detachedLog, posted,
          scriptState, pendingRequests, nextRequestId, listeners,
          destroyedCount, userLog, logLog, rpcLog, sessions,
          token, hostConnectionRequest, links, focus, ops, ws, logHandler>>

ScriptRefs == SessionIds \X Handles

\* The program state as one value, the form the operations below transform,
\* at the start of a macrotask: nothing observed yet (lastSignals, handlerLog,
\* userLog, logLog) and no promise continuation queued (micro).
World ==
    [serialCounter |-> serialCounter, pendingCalls |-> pendingCalls,
     signalHandlers |-> signalHandlers, timers |-> timers, wire |-> wire,
     settled |-> settled, lastSignals |-> <<>>, handlerLog |-> <<>>,
     transport |-> transport,
     state |-> state, lastRxBatchId |-> lastRxBatchId,
     pendingMessages |-> pendingMessages, nextSerial |-> nextSerial,
     pendingDeliveries |-> pendingDeliveries, scripts |-> scripts,
     detachedLog |-> detachedLog, posted |-> posted,
     scriptState |-> scriptState, pendingRequests |-> pendingRequests,
     nextRequestId |-> nextRequestId, listeners |-> listeners,
     destroyedCount |-> destroyedCount, userLog |-> <<>>,
     logLog |-> <<>>, rpcLog |-> rpcLog, sessions |-> sessions,
     token |-> token, hostConnectionRequest |-> hostConnectionRequest,
     links |-> links, focus |-> focus, ops |-> ops, ws |-> ws,
     logHandler |-> logHandler,
     micro |-> <<>>, exc |-> FALSE]

Store(w) ==
    /\ serialCounter' = w.serialCounter
    /\ pendingCalls' = w.pendingCalls
    /\ signalHandlers' = w.signalHandlers
    /\ timers' = w.timers
    /\ wire' = w.wire
    /\ settled' = w.settled
    /\ handlerLog' = w.handlerLog
    /\ lastSignals' = w.lastSignals
    /\ transport' = w.transport
    /\ state' = w.state
    /\ lastRxBatchId' = w.lastRxBatchId
    /\ pendingMessages' = w.pendingMessages
    /\ nextSerial' = w.nextSerial
    /\ pendingDeliveries' = w.pendingDeliveries
    /\ scripts' = w.scripts
    /\ detachedLog' = w.detachedLog
    /\ posted' = w.posted
    /\ scriptState' = w.scriptState
    /\ pendingRequests' = w.pendingRequests
    /\ nextRequestId' = w.nextRequestId
    /\ listeners' = w.listeners
    /\ destroyedCount' = w.destroyedCount
    /\ userLog' = w.userLog
    /\ logLog' = w.logLog
    /\ rpcLog' = w.rpcLog
    /\ sessions' = w.sessions
    /\ token' = w.token
    /\ hostConnectionRequest' = w.hostConnectionRequest
    /\ links' = w.links
    /\ focus' = w.focus
    /\ ops' = w.ops
    /\ ws' = w.ws
    /\ logHandler' = w.logHandler

----------------------------------------------------------------------------
(* BrowserDBusClient: calls.                                               *)

AgentInterface == "re.frida.AgentSession17"
HostInterface == "re.frida.HostSession17"
HostPath == <<"/re/frida/HostSession">>
\* `/re/frida/AgentSession/${sessionId}`
AgentPath(sid) == <<"/re/frida/AgentSession", sid>>
\* `${objectPath}:${interfaceName}:${memberName}`
SignalKey(objectPath, interfaceName, memberName) ==
    <<objectPath, interfaceName, memberName>>

\* What awaits a call: the operation that issued it and its receiver.
Cont(op, sid, h) == [op |-> op, sid |-> sid, h |-> h]
Resolve(result) == [kind |-> "resolve", value |-> result]
Reject(error) == [kind |-> "reject", value |-> error]
TimeoutError == [message |-> "D-Bus call timeout"]
DBusError(errorName, args) ==
    [message |-> "D-Bus Error", errorName |-> errorName,
     text |-> IF Len(args) > 0 /\ args[1] # ""
              THEN args[1] ELSE "Unknown error"]

\* Fault: the table is emptied when one call is settled.
DeletePending_All(calls, serial) == <<>>

\* this.pendingCalls.delete(serial)
DeletePending(calls, serial) ==
    [s \in (DOMAIN calls) \ {serial} |-> calls[s]]

\* this.pendingCalls.set(serial, { resolve, reject })
SetPending(calls, serial, cont) ==
    [s \in (DOMAIN calls) \cup {serial} |->
        IF s = serial THEN cont ELSE calls[s]]

\* Fault: the counter starts over when no call is pending.
callMethod_Recycle(w, objectPath, interfaceName, memberName, args, cont) ==
    LET serial == IF DOMAIN w.pendingCalls = {} THEN 1 ELSE w.serialCounter IN
    [w EXCEPT
        !.serialCounter = w.serialCounter + 1,
        !.wire = Append(@, [serial |-> serial, objectPath |-> objectPath,
                            interfaceName |-> interfaceName,
                            memberName |-> memberName, args |-> args]),
        !.pendingCalls = SetPending(@, serial, cont),
        !.timers = @ \cup {serial}]

\* callMethod: take the next serial, write the call, register the pending
\* call and start its timer; all of it runs before callMethod returns.
callMethod(w, objectPath, interfaceName, memberName, args, cont) ==
    LET serial == w.serialCounter IN
    [w EXCEPT
        !.serialCounter = serial + 1,
        !.wire = Append(@, [serial |-> serial, objectPath |-> objectPath,
                            interfaceName |-> interfaceName,
                            memberName |-> memberName, args |-> args]),
        !.pendingCalls = SetPending(@, serial, cont),
        !.timers = @ \cup {serial}]

\* pending.resolve(...) / pending.reject(...): the promise is settled now,
\* what awaits it runs when the current macrotask has ended.
SettleCall(w, serial, outcome) ==
    [w EXCEPT
        !.settled[serial] = Append(@, outcome),
        !.micro = Append(@, [cont |-> w.pendingCalls[serial],
                             outcome |-> outcome]),
        !.pendingCalls = DeletePending(@, serial)]

\* Fault: the timer callback without its pendingCalls.has(serial) test.
OnCallTimeout_NoCheck(w, serial) ==
    [w EXCEPT
        !.settled[serial] = Append(@, Reject(TimeoutError)),
        !.pendingCalls = DeletePending(@, serial)]

\* Fault: the timer callback does nothing once the transport has closed.
OnCallTimeout_OpenOnly(w, serial) ==
    IF serial \in DOMAIN w.pendingCalls /\ w.transport = "open"
    THEN SettleCall(w, serial, Reject(TimeoutError))
    ELSE w

\* The setTimeout callback of callMethod.
OnCallTimeout(w, serial) ==
    IF serial \in DOMAIN w.pendingCalls
    THEN SettleCall(w, serial, Reject(TimeoutError))
    ELSE w

addSignalListener(w, key, handler) ==
    [w EXCEPT !.signalHandlers[key] = Append(@, handler)]

\* handlers.indexOf(handler), 1-based; 0 when absent.
IndexOf(seq, x) ==
    IF \E i \in 1..Len(seq) : seq[i] = x
    THEN CHOOSE i \in 1..Len(seq) :
            seq[i] = x /\ \A j \in 1..(i - 1) : seq[j] # x
    ELSE 0

\* splice(index, 1)
Splice(seq, i) == SubSeq(seq, 1, i - 1) \o SubSeq(seq, i + 1, Len(seq))

RemoveFirst(seq, x) ==
    IF IndexOf(seq, x) > 0 THEN Splice(seq, IndexOf(seq, x)) ELSE seq

removeSignalListener(w, key, handler) ==
    [w EXCEPT !.signalHandlers[key] = RemoveFirst(@, handler)]

----------------------------------------------------------------------------
(* BrowserEventEmitter of a Script.                                        *)

Listener(k, id) == [k |-> k, id |-> id]
OnDestroyed == Listener("onDestroyed", "")
OnMessage == Listener("onMessage", "")
SessionOnce == Listener("sessionOnce", "")
Proxy(u) == Listener("proxy", u)

NoListeners == [destroyed |-> <<>>, message |-> <<>>]

addListener(w, sc, event, listener) ==
    [w EXCEPT !.listeners[sc][event] = Append(@, listener)]

removeListener(w, sc, event, listener) ==
    [w EXCEPT !.listeners[sc][event] = RemoveFirst(@, listener)]

----------------------------------------------------------------------------
(* Session: outbound flow control.                                         *)

NullData == [k |-> "null"]
Buffer(bytes) == [k |-> "buffer", bytes |-> bytes]
KindScript == 1

\* BrowserAgentSession.postMessages
AgentSession_postMessages(w, sid, records, batchId) ==
    callMethod(w, AgentPath(sid), AgentInterface, "PostMessages",
               <<records, batchId>>, Cont("postMessages", sid, 0))

\* Fault: _deliverPendingMessages without its _pendingDeliveries test.
deliverPendingMessages_NoGuard(w, sid) ==
    LET messages == w.pendingMessages[sid] IN
    IF Len(messages) = 0 THEN w
    ELSE LET batchId == messages[Len(messages)].serial
             records == [i \in 1..Len(messages) |-> messages[i].record]
         IN AgentSession_postMessages(
                [w EXCEPT !.pendingMessages[sid] = <<>>,
                          !.pendingDeliveries[sid] = @ + 1],
                sid, records, batchId)

\* Fault: the batch id taken from the first queued message, not the last.
deliverPendingMessages_FirstSerial(w, sid) ==
    LET messages == w.pendingMessages[sid] IN
    IF w.pendingDeliveries[sid] > 0 THEN w
    ELSE IF Len(messages) = 0 THEN w
    ELSE LET batchId == messages[1].serial
             records == [i \in 1..Len(messages) |-> messages[i].record]
         IN AgentSession_postMessages(
                [w EXCEPT !.pendingMessages[sid] = <<>>,
                          !.pendingDeliveries[sid] = @ + 1],
                sid, records, batchId)

deliverPendingMessages(w, sid) ==
    LET messages == w.pendingMessages[sid] IN
    IF w.pendingDeliveries[sid] > 0 THEN w
    ELSE IF Len(messages) = 0 THEN w
    ELSE LET batchId == messages[Len(messages)].serial
             records == [i \in 1..Len(messages) |-> messages[i].record]
         IN AgentSession_postMessages(
                [w EXCEPT !.pendingMessages[sid] = <<>>,
                          !.pendingDeliveries[sid] = @ + 1],
                sid, records, batchId)

postToAgent(w, sid, record) ==
    deliverPendingMessages(
        [w EXCEPT !.pendingMessages[sid] =
                      Append(@, [serial |-> w.nextSerial[sid],
                                 record |-> record]),
                  !.nextSerial[sid] = @ + 1,
                  !.posted[sid] = Append(@, [serial |-> w.nextSerial[sid],
                                             record |-> record])],
        sid)

\* Fault: the catch callback leaves _pendingDeliveries as it is.
OnPostMessagesDone_NoClear(w, sid, outcome) ==
    IF outcome.kind = "resolve"
    THEN deliverPendingMessages([w EXCEPT !.pendingDeliveries[sid] = @ - 1], sid)
    ELSE w

\* The then / catch callbacks of the postMessages promise.
OnPostMessagesDone(w, sid, outcome) ==
    IF outcome.kind = "resolve"
    THEN deliverPendingMessages([w EXCEPT !.pendingDeliveries[sid] = @ - 1], sid)
    ELSE [w EXCEPT !.pendingDeliveries[sid] = @ - 1]

----------------------------------------------------------------------------
(* Script.                                                                 *)

TypeOf(v) ==
    CASE v.k \in {"obj", "arr", "null"} -> "object"
      [] v.k = "str" -> "string"
      [] v.k = "num" -> "number"
      [] OTHER -> "undefined"

isInternalMessage(message) ==
    /\ Get(message, "type") = Str("send")
    /\ TypeOf(Get(message, "payload")) = "object"
    /\ Get(message, "payload").k = "arr"
    /\ Len(Get(message, "payload").items) >= 1
    /\ Get(message, "payload").items[1] = RpcMarker

isRpcSendMessage(message) ==
    /\ TypeOf(Get(message, "payload")) = "object"
    /\ Get(message, "payload").k = "arr"
    /\ Len(Get(message, "payload").items) >= 1
    /\ Get(message, "payload").items[1] = RpcMarker

isLogMessage(message) ==
    \/ Get(message, "type") = Str("log")
    \/ /\ Get(message, "type") = Str("send")
       /\ TypeOf(Get(message, "payload")) = "object"
       /\ Get(message, "payload") # Null
       /\ Get(Get(message, "payload"), "type") = Str("log")

\* Fault: post serialises the payload instead of the message.
Script_post_Payload(w, sc, message, data) ==
    LET hasData == data # NullData
        record == <<KindScript, <<sc[2]>>, Stringify(Get(message, "payload")),
                    hasData, IF hasData THEN data.bytes ELSE <<>> >>
    IN postToAgent(w, sc[1], record)

Script_post(w, sc, message, data) ==
    LET hasData == data # NullData
        record == <<KindScript, <<sc[2]>>, Stringify(message), hasData,
                    IF hasData THEN data.bytes ELSE <<>> >>
    IN postToAgent(w, sc[1], record)

\* Fault: the completion handler without `delete this.pendingRequests[strId]`.
CompleteRequest_Keep(w, sc, strId, error, result) ==
    [w EXCEPT
        !.rpcLog[sc][strId] =
            Append(@, IF error # Null THEN Reject(error) ELSE Resolve(result))]

\* The completion handler that request() stores under strId.
CompleteRequest(w, sc, strId, error, result) ==
    [w EXCEPT
        !.pendingRequests[sc] = @ \ {strId},
        !.rpcLog[sc][strId] =
            Append(@, IF error # Null THEN Reject(error) ELSE Resolve(result))]

onRpcMessage(w, sc, id, operation, params) ==
    LET strId == ToString(id.n) IN
    IF strId \notin w.pendingRequests[sc] THEN w
    ELSE IF operation = Str("ok")
         THEN CompleteRequest(w, sc, strId, Null, At(params, 0))
    ELSE IF operation = Str("error")
         THEN CompleteRequest(w, sc, strId,
                  [message |-> At(params, 0), name |-> At(params, 1),
                   stack |-> At(params, 2)],
                  Undefined)
    ELSE CompleteRequest(w, sc, strId, Null, Undefined)

\* ScriptServices.onMessage
onMessage(w, sc, message, data) ==
    IF Get(message, "type") = Str("send") /\ isRpcSendMessage(message)
    THEN LET payload == Get(message, "payload").items IN
         onRpcMessage(w, sc, At(payload, 1), At(payload, 2),
                      SubSeq(payload, 4, Len(payload)))
    ELSE IF isLogMessage(message)
    THEN [w EXCEPT !.logLog = Append(@, [script |-> sc,
                                        level |-> Get(message, "level"),
                                        text |-> Get(message, "payload")]),
                   !.exc = w.logHandler[sc] \in ThrowingLogHandlers]
    ELSE w

\* The closure getProxy returns for a user handler of "message": the handler
\* is called, and what it throws leaves the closure.
ProxyHandler(w, sc, u, message, data) ==
    IF ~isInternalMessage(message)
    THEN [w EXCEPT !.userLog = Append(@, [script |-> sc, handler |-> u,
                                         message |-> message, data |-> data]),
                   !.exc = u \in ThrowingUserHandlers]
    ELSE w

\* set logHandler(handler)
Script_setLogHandler(w, sc, handler) == [w EXCEPT !.logHandler[sc] = handler]

\* Fault: the request ids start over when no request is pending.
request_Reuse(w, sc, operation, params) ==
    LET id == IF w.pendingRequests[sc] = {} THEN 1 ELSE w.nextRequestId[sc] IN
    Script_post(
        [w EXCEPT !.nextRequestId[sc] = w.nextRequestId[sc] + 1,
                  !.pendingRequests[sc] = @ \cup {ToString(id)}],
        sc, Arr(<<RpcMarker, Num(id), Str(operation)>> \o params), NullData)

\* ScriptServices.request
request(w, sc, operation, params) ==
    LET id == w.nextRequestId[sc] IN
    Script_post(
        [w EXCEPT !.nextRequestId[sc] = id + 1,
                  !.pendingRequests[sc] = @ \cup {ToString(id)}],
        sc, Arr(<<RpcMarker, Num(id), Str(operation)>> \o params), NullData)

\* The callable the exports proxy returns for a property name, called with
\* args: rpc.request("call", [property, args]).
ExportsCallWith(w, sc, name, args) ==
    request(w, sc, "call", <<Str(name), Arr(args)>>)

\* The same, called without arguments.
ExportsCall(w, sc, name) == ExportsCallWith(w, sc, name, <<>>)

\* The listener the Session registers with once("destroyed") in createScript.
SessionOnceListener(w, sc) ==
    removeListener(
        [w EXCEPT !.scripts[sc[1]] = RemoveFirst(@, sc[2])],
        sc, "destroyed", SessionOnce)

\* ScriptServices.onDestroyed
onDestroyed(w, sc) ==
    removeListener(removeListener(w, sc, "destroyed", OnDestroyed),
                   sc, "message", OnMessage)

RunListener(w, sc, listener, args) ==
    CASE listener.k = "onDestroyed" -> onDestroyed(w, sc)
      [] listener.k = "sessionOnce" -> SessionOnceListener(w, sc)
      [] listener.k = "onMessage" -> onMessage(w, sc, args[1], args[2])
      [] listener.k = "proxy" ->
            ProxyHandler(w, sc, listener.id, args[1], args[2])

\* emit: eventListeners.forEach over the live array: the length is read once,
\* an index past the current end of the array is skipped, and an exception
\* that leaves a listener ends the iteration.
RECURSIVE EmitFrom(_, _, _, _, _, _)
EmitFrom(w, sc, event, args, i, len) ==
    IF i > len \/ i > Len(w.listeners[sc][event]) \/ w.exc THEN w
    ELSE EmitFrom(RunListener(w, sc, w.listeners[sc][event][i], args),
                  sc, event, args, i + 1, len)

emit(w, sc, event, args) ==
    EmitFrom(w, sc, event, args, 1, Len(w.listeners[sc][event]))

Script_destroy(w, sc) ==
    IF w.scriptState[sc] = "destroyed" THEN w
    ELSE emit([w EXCEPT !.scriptState[sc] = "destroyed",
                        !.destroyedCount[sc] = @ + 1],
              sc, "destroyed", <<>>)

Script_dispatchMessage(w, sc, message, data) ==
    emit(w, sc, "message", <<message, data>>)

\* Script.unload up to its await.
Script_unload(w, sc) ==
    callMethod(w, AgentPath(sc[1]), AgentInterface, "DestroyScript",
               << <<sc[2]>> >>, Cont("destroyScript", sc[1], sc[2]))

\* Script.load
Script_load(w, sc) ==
    callMethod(w, AgentPath(sc[1]), AgentInterface, "LoadScript",
               << <<sc[2]>> >>, Cont("loadScript", sc[1], sc[2]))

\* Signal.connect of script.message: SignalAdapter.addListener registers the
\* proxy that getProxy returns for the handler.
SignalAdapter_addListener(w, sc, u) == addListener(w, sc, "message", Proxy(u))

SignalAdapter_removeListener(w, sc, u) ==
    removeListener(w, sc, "message", Proxy(u))

----------------------------------------------------------------------------
(* Session: inbound dispatch, scripts, detach.                             *)

ApplicationRequested == "application-requested"
ProcessTerminated == "process-terminated"
ConnectionTerminated == "connection-terminated"

\* for (const [kind, scriptId, text, hasData, data] of messages) ...: an
\* exception that leaves script._dispatchMessage ends the loop.
RECURSIVE DispatchFrom(_, _, _, _)
DispatchFrom(w, sid, messages, i) ==
    IF i > Len(messages) \/ w.exc THEN w
    ELSE LET record == messages[i]
             scriptId == record[2]
             text == record[3]
             hasData == record[4]
             data == record[5]
             message == Parse(text)
             binaryData == IF hasData THEN Buffer(data) ELSE NullData
         IN IF IndexOf(w.scripts[sid], scriptId[1]) = 0
            THEN DispatchFrom(w, sid, messages, i + 1)
            ELSE IF message = SyntaxError
            THEN DispatchFrom(w, sid, messages, i + 1)
            ELSE DispatchFrom(
                     Script_dispatchMessage(w, <<sid, scriptId[1]>>,
                                            message, binaryData),
                     sid, messages, i + 1)

\* Fault: _lastRxBatchId only ever grows.
dispatchMessages_Monotonic(w, sid, messages, batchId) ==
    DispatchFrom([w EXCEPT !.lastRxBatchId[sid] =
                               IF batchId > @ THEN batchId ELSE @],
                 sid, messages, 1)

\* Session._dispatchMessages, reached through _handleIncomingMessages and the
\* AgentMessageSink.
dispatchMessages(w, sid, messages, batchId) ==
    DispatchFrom([w EXCEPT !.lastRxBatchId[sid] = batchId], sid, messages, 1)

\* for (const script of this._scripts.values()) script._destroy(): a Map
\* iterator visits the entries still present, in insertion order.
RECURSIVE DestroyFrom(_, _, _)
DestroyFrom(w, sid, i) ==
    IF i > Len(w.scripts[sid]) THEN w
    ELSE LET h == w.scripts[sid][i]
             w1 == Script_destroy(w, <<sid, h>>)
         IN DestroyFrom(w1, sid,
                        IF i <= Len(w1.scripts[sid]) /\ w1.scripts[sid][i] = h
                        THEN i + 1 ELSE i)

\* The listener Client.attach registers with
\* session._events.once("destroyed", ...).
ClientOnceListener(w, sid) == [w EXCEPT !.sessions = @ \ {sid}]

\* session._events.emit(event, ...): the listeners on a Session's emitter
\* are the Client's, for "destroyed", and the caller's, for "detached".
Session_emit(w, sid, event) ==
    IF event = "destroyed" /\ sid \in w.sessions
    THEN ClientOnceListener(w, sid)
    ELSE w

\* this._events.emit("detached", reason, crash)
EmitDetached(w, sid, reason, crash) ==
    Session_emit([w EXCEPT !.detachedLog[sid] =
                               Append(@, [reason |-> reason,
                                          crash |-> crash])],
                 sid, "detached")

\* Session.detach up to its await of close().
Session_detach(w, sid) ==
    IF w.state[sid] = "detached" THEN w
    ELSE LET w1 == DestroyFrom([w EXCEPT !.state[sid] = "detached"], sid, 1)
         IN callMethod([w1 EXCEPT !.scripts[sid] = <<>>],
                       AgentPath(sid), AgentInterface, "Close", <<>>,
                       Cont("close", sid, 0))

\* Fault: detach without its try / catch: a failed close() ends detach.
OnCloseDone_Rethrow(w, sid, outcome) ==
    IF outcome.kind = "reject" THEN w
    ELSE EmitDetached(w, sid, ApplicationRequested, "null")

\* Session.detach after the await: close() returned, or threw and the catch
\* swallowed it.
OnCloseDone(w, sid, outcome) ==
    EmitDetached(w, sid, ApplicationRequested, "null")

\* Fault: _onDetached closes the remote session as detach does.
onDetached_Close(w, sid, reason, crash) ==
    IF w.state[sid] = "detached" THEN w
    ELSE LET w1 == DestroyFrom([w EXCEPT !.state[sid] = "detached"], sid, 1)
         IN callMethod(EmitDetached([w1 EXCEPT !.scripts[sid] = <<>>],
                                    sid, reason, crash),
                       AgentPath(sid), AgentInterface, "Close", <<>>,
                       Cont("close", sid, 0))

\* Fault: the loss of the connection interrupts the Session instead of
\* detaching it.
onDetached_Interrupt(w, sid, reason, crash) ==
    IF w.state[sid] = "detached" THEN w
    ELSE IF reason = ConnectionTerminated
    THEN [w EXCEPT !.state[sid] = "interrupted"]
    ELSE LET w1 == DestroyFrom([w EXCEPT !.state[sid] = "detached"], sid, 1)
         IN EmitDetached([w1 EXCEPT !.scripts[sid] = <<>>], sid, reason, crash)

\* Fault: _onDetached without its `_state === "detached"` test.
onDetached_NoGuard(w, sid, reason, crash) ==
    LET w1 == DestroyFrom([w EXCEPT !.state[sid] = "detached"], sid, 1)
    IN EmitDetached([w1 EXCEPT !.scripts[sid] = <<>>], sid, reason, crash)

onDetached(w, sid, reason, crash) ==
    IF w.state[sid] = "detached" THEN w
    ELSE LET w1 == DestroyFrom([w EXCEPT !.state[sid] = "detached"], sid, 1)
         IN EmitDetached([w1 EXCEPT !.scripts[sid] = <<>>], sid, reason, crash)

\* Session.resume up to its await.
Session_resume(w, sid) ==
    IF w.state[sid] # "interrupted" THEN w
    ELSE callMethod([w EXCEPT !.state[sid] = "attached"],
                    AgentPath(sid), AgentInterface, "Resume",
                    <<w.lastRxBatchId[sid]>>, Cont("resume", sid, 0))

OnResumeDone(w, sid, outcome) ==
    IF outcome.kind = "resolve"
    THEN deliverPendingMessages(
             [w EXCEPT !.lastRxBatchId[sid] = outcome.value[1]], sid)
    ELSE w

\* Session.createScript up to its await.
Session_createScript(w, sid) ==
    callMethod(w, AgentPath(sid), AgentInterface, "CreateScript",
               <<"source", <<>> >>, Cont("createScript", sid, 0))

\* this._scripts.set(id[0], script)
MapSet(keys, key) == IF IndexOf(keys, key) > 0 THEN keys ELSE Append(keys, key)

\* new Script(this, id): the ScriptServices constructor adds its listeners.
NewScript(w, sc) ==
    [w EXCEPT !.scriptState[sc] = "created",
              !.pendingRequests[sc] = {},
              !.nextRequestId[sc] = 1,
              !.listeners[sc] = [destroyed |-> <<OnDestroyed>>,
                                 message |-> <<OnMessage>>]]

\* Session.createScript after the await.
OnCreateScriptDone(w, sid, outcome) ==
    IF outcome.kind = "resolve"
    THEN LET h == outcome.value[1][1]
             w1 == NewScript(w, <<sid, h>>)
         IN addListener([w1 EXCEPT !.scripts[sid] = MapSet(@, h)],
                        <<sid, h>>, "destroyed", SessionOnce)
    ELSE w

\* Fault: unload() destroys the Script whatever the outcome of the call.
OnDestroyScriptDone_Always(w, sc, outcome) == Script_destroy(w, sc)

\* Script.unload after its await: _destroy() if the call was answered, and
\* nothing more if it failed (the rejection is that of unload()).
OnDestroyScriptDone(w, sc, outcome) ==
    IF outcome.kind = "resolve" THEN Script_destroy(w, sc) ELSE w

----------------------------------------------------------------------------
(* Client: what attach() wires up, and the transport's close handler.      *)

\* Fault: every Session subscribes to the path of session "a".
MessageKey_Shared(sid) == SignalKey(AgentPath("a"), AgentInterface, "Message")

MessageKey(sid) == SignalKey(AgentPath(sid), AgentInterface, "Message")
PlainHandler(id) == [k |-> "plain", id |-> id]
\* The handlers of the caller's that throw once they have recorded the call.
ThrowingHandlerIds == {"h2"}
SessionHandler(sid) == [k |-> "session", id |-> sid]

\* The signalHandler closure of Client.attach.
attachSignalHandler(w, sid, args) ==
    IF Len(args) >= 2
    THEN dispatchMessages(w, sid, args[1], args[2])
    ELSE w

\* Client.attach after the Attach reply: the Session, its registry entry and
\* its Message subscription.
attachSession(w, sid) ==
    addSignalListener(
        [w EXCEPT !.state[sid] = "attached",
                  !.sessions = @ \cup {sid}],
        MessageKey(sid), SessionHandler(sid))

\* The "close" listener of _doGetHostConnection: sessions are visited in the
\* registry's order; _onDetached of one Session does not touch another.
RECURSIVE DetachAll(_, _)
DetachAll(w, sids) ==
    IF sids = {} THEN w
    ELSE LET sid == CHOOSE x \in sids : TRUE
         IN DetachAll(onDetached(w, sid, ConnectionTerminated, "null"),
                      sids \ {sid})

\* Fault: the "close" listener leaves _hostConnectionRequest as it is.
CloseListener_KeepSlot(w) == DetachAll(w, w.sessions)

\* The listener that _doGetHostConnection registers with once("close").
CloseListener(w) ==
    DetachAll([w EXCEPT !.hostConnectionRequest = 0], w.sessions)

\* The WebSocket's close event: WebSocketWrapper emits "close", which runs
\* the once("close") listener if the transport had opened.
OnTransportClose(w) ==
    LET w1 == [w EXCEPT !.transport = "closed"] IN
    IF w.links[w.focus].closeListener
    THEN CloseListener([w1 EXCEPT !.links[w.focus].closeListener = FALSE])
    ELSE w1

----------------------------------------------------------------------------
(* Client: the connection and the host operations.                         *)

\* The Bus variables are those of transport w.focus; Focus(w, t) puts them
\* away and takes out those of transport t.
BusOf(w) ==
    [serialCounter |-> w.serialCounter, pendingCalls |-> w.pendingCalls,
     signalHandlers |-> w.signalHandlers, timers |-> w.timers,
     wire |-> w.wire, settled |-> w.settled, transport |-> w.transport]

Focus(w, t) ==
    IF t = w.focus THEN w
    ELSE LET bus == w.links[t].bus IN
         [w EXCEPT !.links[w.focus].bus = BusOf(w),
                   !.links[t].bus = w.links[w.focus].bus,
                   !.focus = t,
                   !.serialCounter = bus.serialCounter,
                   !.pendingCalls = bus.pendingCalls,
                   !.signalHandlers = bus.signalHandlers,
                   !.timers = bus.timers,
                   !.wire = bus.wire,
                   !.settled = bus.settled,
                   !.transport = bus.transport]

\* The Bus and WebSocket state of transport t, wherever it is kept.
Bus(w, t) == IF t = w.focus THEN BusOf(w) ELSE w.links[t].bus

\* The transports no attempt has created yet, and the one created last.
Unused(w) == {t \in DOMAIN w.links : Bus(w, t).transport = "none"}
Latest(w) ==
    IF DOMAIN w.links \ Unused(w) = {} THEN w.focus
    ELSE CHOOSE t \in DOMAIN w.links \ Unused(w) :
            \A u \in DOMAIN w.links \ Unused(w) : u <= t

ErrorEvent == [message |-> "error event"]
AuthenticationPath == <<"/re/frida/AuthenticationService">>
AuthenticationInterface == "re.frida.AuthenticationService16"

\* resolve / reject of the promise of _doGetHostConnection: the first call
\* settles it, and what awaits it is queued in the order of the awaits.
SettleAttempt(w, t, outcome) ==
    IF w.links[t].attempt # <<>> THEN w
    ELSE LET waiters == w.links[t].waiters IN
         [w EXCEPT !.links[t].attempt = <<outcome>>,
                   !.links[t].waiters = <<>>,
                   !.micro = @ \o [j \in 1..Len(waiters) |->
                                     [cont |-> Cont("connection", "",
                                                    waiters[j]),
                                      outcome |-> outcome]]]

\* _doGetHostConnection up to its return: new WebSocketWrapper(url).
doGetHostConnection(w) ==
    LET t == CHOOSE u \in Unused(w) : \A v \in Unused(w) : u <= v IN
    [Focus(w, t) EXCEPT !.transport = "connecting",
                        !.hostConnectionRequest = t]

\* _getHostConnection
getHostConnection(w) ==
    IF w.hostConnectionRequest = 0 THEN doGetHostConnection(w) ELSE w

\* `await this._getHostConnection()` of operation i.
Await(w, t, i) ==
    IF w.links[t].attempt = <<>>
    THEN [w EXCEPT !.links[t].waiters = Append(@, i)]
    ELSE [w EXCEPT !.micro = Append(@, [cont |-> Cont("connection", "", i),
                                        outcome |-> w.links[t].attempt[1]])]

\* Client.enumerateProcesses / attach / querySystemParameters up to the
\* first await.
StartOp(w, kind) ==
    LET w1 == getHostConnection(w)
        t == w1.hostConnectionRequest
        i == Len(w.ops) + 1
    IN Await([w1 EXCEPT !.ops = Append(@, [kind |-> kind, attempt |-> t,
                                           connection |-> <<>>,
                                           result |-> <<>>])],
             t, i)

\* The arguments BrowserHostSession passes and callMethod writes.
HostArgs(kind) ==
    CASE kind = "EnumerateProcesses" -> << <<>> >>
      [] kind = "Attach" -> <<1, <<>>>>
      [] OTHER -> <<>>

\* The operation after `await this._getHostConnection()`: the call on
\* connection.session, or the rejection passed on.
AfterConnection(w, i, outcome) ==
    LET w1 == [w EXCEPT !.ops[i].connection = <<outcome>>] IN
    IF outcome.kind = "reject"
    THEN [w1 EXCEPT !.ops[i].result = <<outcome>>]
    ELSE callMethod(Focus(w1, outcome.value), HostPath, HostInterface,
                    w.ops[i].kind, HostArgs(w.ops[i].kind),
                    Cont(w.ops[i].kind, "", i))

\* Fault: the "open" listener resolves without waiting for Authenticate.
OnOpen_EarlyResolve(w, t) ==
    LET w1 == [w EXCEPT !.transport = "open",
                        !.links[t].closeListener = TRUE]
    IN IF w.token
       THEN SettleAttempt(
                callMethod(w1, AuthenticationPath, AuthenticationInterface,
                           "Authenticate", <<"token">>,
                           Cont("authenticate", "", t)),
                t, Resolve(t))
       ELSE SettleAttempt(w1, t, Resolve(t))

\* The "open" listener of _doGetHostConnection up to its await, or to its
\* end when no token is configured; w holds the Bus of transport t.
OnOpen(w, t) ==
    LET w1 == [w EXCEPT !.transport = "open",
                        !.links[t].closeListener = TRUE]
    IN IF w.token
       THEN callMethod(w1, AuthenticationPath, AuthenticationInterface,
                       "Authenticate", <<"token">>,
                       Cont("authenticate", "", t))
       ELSE SettleAttempt(w1, t, Resolve(t))

\* The "open" listener after the await of Authenticate.
OnAuthenticateDone(w, t, outcome) ==
    IF outcome.kind = "reject"
    THEN SettleAttempt(w, t, Reject(outcome.value))
    ELSE SettleAttempt(w, t, Resolve(t))

\* Fault: the error event also clears _hostConnectionRequest.
OnTransportError_ClearSlot(w, t) ==
    SettleAttempt([w EXCEPT !.transport = "failed",
                            !.hostConnectionRequest = 0],
                  t, Reject(ErrorEvent))

\* The WebSocket's error event: WebSocketWrapper emits "error", which runs
\* reject through once("error"); the close event follows.
OnTransportError(w, t) ==
    SettleAttempt([w EXCEPT !.transport = "failed"], t, Reject(ErrorEvent))

\* Client.enumerateProcesses after the call: result[0] mapped to records.
OnEnumerateDone(w, i, outcome) ==
    IF outcome.kind = "reject"
    THEN [w EXCEPT !.ops[i].result = <<outcome>>]
    ELSE LET raw == outcome.value[1] IN
         [w EXCEPT !.ops[i].result =
             <<Resolve([j \in 1..Len(raw) |->
                           [pid |-> raw[j][1], name |-> raw[j][2],
                            parameters |-> raw[j][3]]])>>]

\* Client.attach after the call: result[0] is the session id.
OnAttachDone(w, i, outcome) ==
    IF outcome.kind = "reject"
    THEN [w EXCEPT !.ops[i].result = <<outcome>>]
    ELSE LET sid == outcome.value[1][1] IN
         [attachSession(w, sid) EXCEPT !.ops[i].result = <<Resolve(sid)>>]

Truthy(v) ==
    /\ v.k \notin {"undefined", "null"}
    /\ v.k = "str" => v.s # ""
    /\ v.k = "num" => v.n # 0

\* A property key: String(key).
KeyOf(v) ==
    CASE v.k = "str" -> v.s
      [] v.k = "num" -> ToString(v.n)
      [] OTHER -> v.k

\* result[key] = value on an object with these properties.
ObjSet(pairs, key, value) ==
    IF \E j \in 1..Len(pairs) : pairs[j][1] = key
    THEN [j \in 1..Len(pairs) |->
             IF pairs[j][1] = key THEN <<key, value>> ELSE pairs[j]]
    ELSE Append(pairs, <<key, value>>)

\* Client._parseVariantValue; ParseEntries is its loop
\* `for (const item of ...) if (Array.isArray(item) && item.length >= 2)
\* result[item[0]] = this._parseVariantValue(item[1])`. The values are those
\* of a D-Bus reply: strings, numbers, arrays and type objects, never null.
RECURSIVE parseVariantValue(_)
RECURSIVE ParseEntries(_, _, _)
ParseEntries(items, i, acc) ==
    IF i > Len(items) THEN acc
    ELSE LET item == items[i] IN
         IF item.k = "arr" /\ Len(item.items) >= 2
         THEN ParseEntries(items, i + 1,
                           ObjSet(acc, KeyOf(item.items[1]),
                                  parseVariantValue(item.items[2])))
         ELSE ParseEntries(items, i + 1, acc)

parseVariantValue(value) ==
    IF value.k # "arr" THEN value
    ELSE LET items == value.items IN
         IF /\ Len(items) >= 2
            /\ items[1].k = "obj"
            /\ Truthy(Get(items[1], "typeCode"))
         THEN LET typeCode == Get(items[1], "typeCode")
                  data == items[2]
              IN IF typeCode = Str("s") THEN data
                 ELSE IF typeCode = Str("a") /\ data.k = "arr"
                 THEN Obj(ParseEntries(data.items, 1, <<>>))
                 ELSE data
         ELSE Obj(ParseEntries(items, 1, <<>>))

\* The loop of Client.querySystemParameters over result.
RECURSIVE ParseParameters(_, _, _)
ParseParameters(items, i, acc) ==
    IF i > Len(items) THEN acc
    ELSE LET key == At(items[i].items, 0)
             value == At(items[i].items, 1)
         IN IF value.k = "arr" /\ Len(value.items) >= 2
            THEN ParseParameters(items, i + 1,
                                 ObjSet(acc, KeyOf(key),
                                        parseVariantValue(value.items[2])))
            ELSE ParseParameters(items, i + 1, acc)

\* Client.querySystemParameters after the call.
OnQueryDone(w, i, outcome) ==
    IF outcome.kind = "reject"
    THEN [w EXCEPT !.ops[i].result = <<outcome>>]
    ELSE LET result == outcome.value[1] IN
         [w EXCEPT !.ops[i].result =
             <<Resolve(IF result.k = "arr"
                       THEN Obj(ParseParameters(result.items, 1, <<>>))
                       ELSE Obj(<<>>))>>]

----------------------------------------------------------------------------
(* BrowserDBusClient: inbound frames.                                      *)

MethodReturn(serial, args) ==
    [messageType |-> "MethodReturn", serial |-> serial, args |-> args]
ErrorMessage(serial, errorName, args) ==
    [messageType |-> "Error", serial |-> serial, errorName |-> errorName,
     args |-> args]
SignalMessage(objectPath, interfaceName, memberName, args) ==
    [messageType |-> "Signal", objectPath |-> objectPath,
     interfaceName |-> interfaceName, memberName |-> memberName,
     args |-> args]

\* handler(signalMsg.args): the closure of Client.attach, or a handler of
\* the caller's, which records its call and, if it is a throwing one, throws.
Invoke(w, handler, key, args) ==
    IF handler.k = "session"
    THEN attachSignalHandler(w, handler.id, args)
    ELSE [w EXCEPT !.handlerLog =
                       Append(@, [handler |-> handler.id, key |-> key,
                                  args |-> args]),
                   !.exc = handler.id \in ThrowingHandlerIds]

\* Fault: the handler is called without the try / catch around it.
InvokeHandler_NoCatch(w, handler, key, args) == Invoke(w, handler, key, args)

\* try { handler(signalMsg.args) } catch (error) { console.error(...) }
InvokeHandler(w, handler, key, args) ==
    [Invoke(w, handler, key, args) EXCEPT !.exc = FALSE]

\* Fault: only the first handler of the key is invoked.
InvokeFrom_FirstOnly(w, handlers, key, args, i) ==
    IF Len(handlers) = 0 THEN w
    ELSE InvokeHandler(w, handlers[1], key, args)

\* handlers.forEach(handler => ...): an exception that leaves the callback
\* ends the iteration.
RECURSIVE InvokeFrom(_, _, _, _, _)
InvokeFrom(w, handlers, key, args, i) ==
    IF i > Len(handlers) \/ w.exc THEN w
    ELSE InvokeFrom(InvokeHandler(w, handlers[i], key, args),
                    handlers, key, args, i + 1)

\* Fault: a reply is given to the oldest pending call, whatever its serial.
PendingGet_Oldest(calls, serial) ==
    IF DOMAIN calls # {}
    THEN CHOOSE s \in DOMAIN calls : \A t \in DOMAIN calls : s <= t
    ELSE 0

\* this.pendingCalls.get(serial): the serial of the entry found, 0 for none.
PendingGet(calls, serial) == IF serial \in DOMAIN calls THEN serial ELSE 0

HandleOne(w, msg) ==
    CASE msg.messageType = "MethodReturn" ->
            LET pending == PendingGet(w.pendingCalls, msg.serial) IN
            IF pending # 0
            THEN SettleCall(w, pending, Resolve(msg.args))
            ELSE w
      [] msg.messageType = "Error" ->
            LET pending == PendingGet(w.pendingCalls, msg.serial) IN
            IF pending # 0
            THEN SettleCall(w, pending,
                            Reject(DBusError(msg.errorName, msg.args)))
            ELSE w
      [] msg.messageType = "Signal" ->
            LET key == SignalKey(msg.objectPath, msg.interfaceName,
                                 msg.memberName)
                w1 == [w EXCEPT !.lastSignals = Append(@, msg)]
            IN IF key \in DOMAIN w.signalHandlers
               THEN InvokeFrom(w1, w.signalHandlers[key], key, msg.args, 1)
               ELSE w1
      [] OTHER -> w

\* for (const msg of messages) ...: an exception ends the loop.
RECURSIVE HandleFrom(_, _, _)
HandleFrom(w, messages, i) ==
    IF i > Len(messages) \/ w.exc THEN w
    ELSE HandleFrom(HandleOne(w, messages[i]), messages, i + 1)

\* handleMessage(messageData): messageData decodes to `messages`; the outer
\* try / catch logs whatever exception reaches it.
handleMessage(w, messages) ==
    [HandleFrom(w, messages, 1) EXCEPT !.exc = FALSE]

----------------------------------------------------------------------------
(* WebSocketWrapper: the "message" listener of the WebSocket.              *)

\* this.emit('message', messageData): the Bus is the listener; frame n has
\* been passed on.
EmitMessage(w, n, messages) ==
    handleMessage([w EXCEPT !.ws.emitted = Append(@, n)], messages)

\* The listener after `await event.data.arrayBuffer()`, for the i-th read
\* that is pending.
OnArrayBufferDone(w, i) ==
    EmitMessage([w EXCEPT !.ws.reads = Splice(@, i)],
                w.ws.reads[i].n, w.ws.reads[i].messages)

\* The listener up to its await: event.data is a Blob when the binaryType
\* of the WebSocket is "blob", and is then read asynchronously; otherwise
\* it is the ArrayBuffer and is emitted at once.
OnSocketMessage(w, messages) ==
    LET n == w.ws.received + 1
        w1 == [w EXCEPT !.ws.received = n]
    IN IF w.ws.binaryType = "blob"
       THEN [w1 EXCEPT !.ws.reads =
                           Append(@, [n |-> n, messages |-> messages])]
       ELSE EmitMessage(w1, n, messages)

----------------------------------------------------------------------------
(* Promise continuations.                                                  *)

RunCont(w, cont, outcome) ==
    CASE cont.op = "postMessages" -> OnPostMessagesDone(w, cont.sid, outcome)
      [] cont.op = "close" -> OnCloseDone(w, cont.sid, outcome)
      [] cont.op = "resume" -> OnResumeDone(w, cont.sid, outcome)
      [] cont.op = "createScript" -> OnCreateScriptDone(w, cont.sid, outcome)
      [] cont.op = "destroyScript" ->
            OnDestroyScriptDone(w, <<cont.sid, cont.h>>, outcome)
      [] cont.op = "connection" -> AfterConnection(w, cont.h, outcome)
      [] cont.op = "authenticate" -> OnAuthenticateDone(w, cont.h, outcome)
      [] cont.op = "EnumerateProcesses" -> OnEnumerateDone(w, cont.h, outcome)
      [] cont.op = "Attach" -> OnAttachDone(w, cont.h, outcome)
      [] cont.op = "QuerySystemParameters" -> OnQueryDone(w, cont.h, outcome)
      [] OTHER -> w

RECURSIVE Drain(_)
Drain(w) ==
    IF w.micro = <<>> THEN w
    ELSE Drain(RunCont([w EXCEPT !.micro = Tail(@)],
                       Head(w.micro).cont, Head(w.micro).outcome))

----------------------------------------------------------------------------
(* Initial states.                                                         *)

TestPath == <<"/test">>
TestKeys == {SignalKey(TestPath, "test.Iface", m) : m \in {"Ping", "Pong"}}
Keys == TestKeys \cup {MessageKey(sid) : sid \in SessionIds}
PlainHandlerIds == {"h1", "h2"}
RpcIds == {ToString(i) : i \in 1..(MaxPosts + 1)}

Transports == 1..MaxTransports

\* A transport that no attempt has created yet.
NoBus ==
    [serialCounter |-> 1, pendingCalls |-> <<>>,
     signalHandlers |-> [key \in Keys |-> <<>>], timers |-> {},
     wire |-> <<>>, settled |-> [s \in 1..(MaxCalls + 1) |-> <<>>],
     transport |-> "none"]

\* attempt: <<>> while the promise of _doGetHostConnection is pending, then
\* its outcome; closeListener: the once("close") listener is registered;
\* waiters: the operations awaiting the promise, in order.
NoLink ==
    [bus |-> NoBus, attempt |-> <<>>, closeListener |-> FALSE,
     waiters |-> <<>>]

\* The state after the constructors: an open transport with its Bus and a
\* Client that has attached nothing yet.
EmptyWorld ==
    [serialCounter |-> 1, pendingCalls |-> <<>>,
     signalHandlers |-> [key \in Keys |-> <<>>], timers |-> {}, wire |-> <<>>,
     settled |-> [s \in 1..(MaxCalls + 1) |-> <<>>], lastSignals |-> <<>>,
     handlerLog |-> <<>>, transport |-> "open",
     state |-> [sid \in SessionIds |-> "none"],
     lastRxBatchId |-> [sid \in SessionIds |-> 0],
     pendingMessages |-> [sid \in SessionIds |-> <<>>],
     nextSerial |-> [sid \in SessionIds |-> 1],
     pendingDeliveries |-> [sid \in SessionIds |-> 0],
     scripts |-> [sid \in SessionIds |-> <<>>],
     detachedLog |-> [sid \in SessionIds |-> <<>>],
     posted |-> [sid \in SessionIds |-> <<>>],
     scriptState |-> [sc \in ScriptRefs |-> "none"],
     pendingRequests |-> [sc \in ScriptRefs |-> {}],
     nextRequestId |-> [sc \in ScriptRefs |-> 1],
     listeners |-> [sc \in ScriptRefs |-> NoListeners],
     destroyedCount |-> [sc \in ScriptRefs |-> 0],
     userLog |-> <<>>, logLog |-> <<>>,
     rpcLog |-> [sc \in ScriptRefs |-> [id \in RpcIds |-> <<>>]],
     sessions |-> {}, token |-> FALSE, hostConnectionRequest |-> 1,
     links |-> [t \in Transports |->
                   IF t = 1
                   THEN [NoLink EXCEPT !.attempt = <<Resolve(1)>>,
                                       !.closeListener = TRUE]
                   ELSE NoLink],
     focus |-> 1, ops |-> <<>>,
     ws |-> [binaryType |-> "arraybuffer", received |-> 0, reads |-> <<>>,
             emitted |-> <<>>],
     logHandler |-> [sc \in ScriptRefs |-> "log"],
     micro |-> <<>>, exc |-> FALSE]

\* Session "a" as Client.attach leaves it.
AttachedWorld == attachSession(EmptyWorld, "a")

\* Session "a" with script 1 as createScript leaves it.
ScriptWorld ==
    OnCreateScriptDone(AttachedWorld, "a", Resolve(<< <<1>> >>))

\* Session "a" with scripts 1 and 2, created in that order.
TwoScriptWorld ==
    OnCreateScriptDone(ScriptWorld, "a", Resolve(<< <<2>> >>))

\* Sessions "a" and "b" attached over one connection, each with a script
\* of handle 1.
TwoSessionWorld ==
    OnCreateScriptDone(attachSession(ScriptWorld, "b"), "b",
                       Resolve(<< <<1>> >>))

Load(w) ==
    /\ serialCounter = w.serialCounter
    /\ pendingCalls = w.pendingCalls
    /\ signalHandlers = w.signalHandlers
    /\ timers = w.timers
    /\ wire = w.wire
    /\ settled = w.settled
    /\ handlerLog = w.handlerLog
    /\ lastSignals = w.lastSignals
    /\ transport = w.transport
    /\ state = w.state
    /\ lastRxBatchId = w.lastRxBatchId
    /\ pendingMessages = w.pendingMessages
    /\ nextSerial = w.nextSerial
    /\ pendingDeliveries = w.pendingDeliveries
    /\ scripts = w.scripts
    /\ detachedLog = w.detachedLog
    /\ posted = w.posted
    /\ scriptState = w.scriptState
    /\ pendingRequests = w.pendingRequests
    /\ nextRequestId = w.nextRequestId
    /\ listeners = w.listeners
    /\ destroyedCount = w.destroyedCount
    /\ userLog = w.userLog
    /\ logLog = w.logLog
    /\ rpcLog = w.rpcLog
    /\ sessions = w.sessions
    /\ token = w.token
    /\ hostConnectionRequest = w.hostConnectionRequest
    /\ links = w.links
    /\ focus = w.focus
    /\ ops = w.ops
    /\ ws = w.ws
    /\ logHandler = w.logHandler

\* A Client as its constructor leaves it, with or without a token: no
\* transport, no attempt memoized.
ClientWorld(tok) ==
    [EmptyWorld EXCEPT !.transport = "none", !.token = tok,
                       !.hostConnectionRequest = 0, !.links[1] = NoLink]

InitBus == Load(EmptyWorld)
InitClient == \E tok \in BOOLEAN : Load(ClientWorld(tok))
InitScript == Load(ScriptWorld)
\* A Bus on a WebSocket of either binaryType ("blob" is the default of a
\* WebSocket, and the source does not set it).
InitSocket ==
    \E binaryType \in {"blob", "arraybuffer"} :
        Load([EmptyWorld EXCEPT !.ws.binaryType = binaryType])
InitTwoScripts == Load(TwoScriptWorld)
InitTwoSessions == Load(TwoSessionWorld)

----------------------------------------------------------------------------
(* Actions: one macrotask each, its continuations included.                *)

Bounded(w) ==
    /\ w.serialCounter <= MaxCalls + 1
    /\ \A sid \in SessionIds : w.nextSerial[sid] <= MaxPosts + 1

Step(w) == LET w1 == Drain(w) IN Bounded(w1) /\ Store(w1)

\* A caller of the Bus: HostSession.enumerateProcesses.
CallMethod ==
    Step(callMethod(World, HostPath, HostInterface, "EnumerateProcesses",
                    << <<>> >>, Cont("call", "", 0)))

\* A handler is registered under one key at a time (registering it twice is
\* a caller error).
AddSignalListener ==
    \E key \in TestKeys, id \in PlainHandlerIds :
        /\ \A k \in TestKeys : IndexOf(signalHandlers[k], PlainHandler(id)) = 0
        /\ Step(addSignalListener(World, key, PlainHandler(id)))

RemoveSignalListener ==
    \E key \in TestKeys, id \in PlainHandlerIds :
        /\ IndexOf(signalHandlers[key], PlainHandler(id)) > 0
        /\ Step(removeSignalListener(World, key, PlainHandler(id)))

CallTimeout ==
    \E serial \in timers :
        Step(OnCallTimeout([World EXCEPT !.timers = @ \ {serial}], serial))

\* The timer of a call that is still pending (the others do nothing when
\* they fire).
PendingCallTimeout ==
    \E serial \in timers \cap DOMAIN pendingCalls :
        Step(OnCallTimeout([World EXCEPT !.timers = @ \ {serial}], serial))

ReceiveFrame(messages) ==
    /\ transport = "open"
    /\ Step(handleMessage(World, messages))

TransportClose ==
    /\ transport = "open"
    /\ Step(OnTransportClose(World))

Post ==
    \E sc \in ScriptRefs, message \in PlainMessages :
        /\ scriptState[sc] # "none"
        /\ Step(Script_post(World, sc, message, NullData))

\* Script.post of one message, by any script.
PostHello ==
    \E sc \in ScriptRefs :
        /\ scriptState[sc] # "none"
        /\ Step(Script_post(World, sc, MsgHello, NullData))

PostData ==
    \E sc \in ScriptRefs :
        /\ scriptState[sc] # "none"
        /\ Step(Script_post(World, sc, MsgHello, Buffer(<<7>>)))

CallExport ==
    \E sc \in ScriptRefs :
        /\ scriptState[sc] # "none"
        /\ Step(ExportsCall(World, sc, "add"))

\* The exports a caller invokes and the arguments it passes.
ExportNames == {"add"}
ExportArgs == {<<>>, <<Num(2), Str("x")>>}

\* script.exports[name](...args), by any script.
InvokeExport ==
    \E sc \in ScriptRefs, name \in ExportNames, args \in ExportArgs :
        /\ scriptState[sc] # "none"
        /\ Step(ExportsCallWith(World, sc, name, args))

Connect ==
    \E sc \in ScriptRefs, u \in UserHandlers :
        /\ scriptState[sc] # "none"
        /\ IndexOf(listeners[sc].message, Proxy(u)) = 0
        /\ Step(SignalAdapter_addListener(World, sc, u))

Disconnect ==
    \E sc \in ScriptRefs, u \in UserHandlers :
        /\ IndexOf(listeners[sc].message, Proxy(u)) > 0
        /\ Step(SignalAdapter_removeListener(World, sc, u))

Unload ==
    \E sc \in ScriptRefs :
        /\ scriptState[sc] # "none"
        /\ Step(Script_unload(World, sc))

\* A macrotask of the Client: afterwards the Bus variables hold the Bus of
\* the transport created last.
ClientStep(w) ==
    LET w1 == Drain(w) IN Bounded(w1) /\ Store(Focus(w1, Latest(w1)))

\* A Client operation can start if an attempt is memoized or a transport is
\* left to create.
StartClientOp(kind) ==
    /\ Len(ops) < MaxOps
    /\ hostConnectionRequest # 0 \/ Unused(World) # {}
    /\ ClientStep(StartOp(World, kind))

EnumerateProcesses == StartClientOp("EnumerateProcesses")
Attach == StartClientOp("Attach")
QuerySystemParameters == StartClientOp("QuerySystemParameters")

SocketOpen ==
    \E t \in Transports :
        /\ Bus(World, t).transport = "connecting"
        /\ ClientStep(OnOpen(Focus(World, t), t))

SocketError ==
    \E t \in Transports :
        /\ Bus(World, t).transport \in {"connecting", "open"}
        /\ ClientStep(OnTransportError(Focus(World, t), t))

SocketClose ==
    \E t \in Transports :
        /\ Bus(World, t).transport \in {"open", "failed"}
        /\ ClientStep(OnTransportClose(Focus(World, t)))

\* The timer of a pending call of any transport's Bus.
ClientCallTimeout ==
    \E t \in Transports :
        \E serial \in Bus(World, t).timers
                        \cap DOMAIN Bus(World, t).pendingCalls :
            ClientStep(OnCallTimeout(
                [Focus(World, t) EXCEPT !.timers = @ \ {serial}], serial))

CreateScript ==
    \E sid \in SessionIds :
        /\ state[sid] # "none"
        /\ Step(Session_createScript(World, sid))

Detach ==
    \E sid \in SessionIds :
        /\ state[sid] # "none"
        /\ Step(Session_detach(World, sid))

Resume ==
    \E sid \in SessionIds :
        /\ state[sid] # "none"
        /\ Step(Session_resume(World, sid))

\* A detach notification from the remote side.
RemoteDetached ==
    \E sid \in SessionIds :
        /\ state[sid] # "none"
        /\ Step(onDetached(World, sid, ProcessTerminated, "null"))

----------------------------------------------------------------------------
(* What the remote side may send.                                          *)

\* The remote agent numbers its scripts upwards: the next handle of a session.
FreshHandles(sid) ==
    {h \in Handles : /\ scriptState[<<sid, h>>] = "none"
                     /\ \A g \in 1..(h - 1) : scriptState[<<sid, g>>] # "none"}

\* The remote host names its sessions "a", then "b".
FreshSessions ==
    {sid \in SessionIds :
        /\ state[sid] = "none"
        /\ sid = "b" => state["a"] # "none"}

\* Replies to QuerySystemParameters: the list of (key, variant) pairs, a
\* variant being [signature, value].
Pair(key, signature, value) ==
    Arr(<<Str(key), Arr(<<Str(signature), value>>)>>)

ParameterLists ==
    {Arr(<<Pair("os", "s", Str("linux")), Pair("arch", "s", Str("x64"))>>),
     Arr(<<Pair("os", "s", Str("linux")), Pair("os", "s", Str("bsd"))>>),
     Arr(<<Pair("pid", "u", Num(7)),
           Arr(<<Str("name"), Arr(<<Str("s")>>)>>)>>),
     Arr(<<Pair("tags", "as", Arr(<<Str("x"), Str("y")>>))>>),
     Arr(<<Pair("os", "a{sv}", Arr(<<Pair("id", "s", Str("ubuntu"))>>))>>),
     Arr(<<>>)}

\* The results a method return carries for the call it answers.
ReplyArgs(serial) ==
    IF serial \notin DOMAIN pendingCalls THEN {<<>>}
    ELSE CASE pendingCalls[serial].op = "createScript" ->
                 {<< <<h>> >> : h \in FreshHandles(pendingCalls[serial].sid)}
           [] pendingCalls[serial].op = "resume" -> {<<0>>}
           [] pendingCalls[serial].op = "call" -> {<<"result", serial>>}
           [] pendingCalls[serial].op = "Attach" ->
                 {<< <<sid>> >> : sid \in FreshSessions}
           [] pendingCalls[serial].op = "EnumerateProcesses" ->
                 {<< << <<1, "init", <<>>>> >> >>}
           [] pendingCalls[serial].op = "QuerySystemParameters" ->
                 {<<p>> : p \in ParameterLists}
           [] OTHER -> {<<>>}

Serials == 1..MaxCalls

Replies ==
    UNION {{MethodReturn(s, a) : a \in ReplyArgs(s)} : s \in Serials}

Errors == {ErrorMessage(s, "re.frida.Error", <<"failed">>) : s \in Serials}

TestSignals ==
    {SignalMessage(TestPath, "test.Iface", m, <<"x">>) :
        m \in {"Ping", "Pong", "Other"}}

Record(h, text, hasData, data) == <<KindScript, <<h>>, text, hasData, data>>

\* Record batches a remote agent sends: one record for a script, with a
\* well-formed or a malformed text, with or without binary data.
InboundBatches ==
    {<<Record(1, Stringify(m), FALSE, <<>>)>> : m \in InboundMessages}
    \cup {<<Record(1, BadText, FALSE, <<>>)>>,
          <<Record(1, Stringify(MsgHello), TRUE, <<7>>)>>,
          <<Record(2, Stringify(MsgHello), FALSE, <<>>)>>}

\* The batches posted so far, as a remote that echoes them sends them back.
EchoedArgs ==
    {wire[i].args : i \in {j \in 1..Len(wire) :
                              wire[j].memberName = "PostMessages"}}

MessageSignals ==
    {SignalMessage(AgentPath(sid), AgentInterface, "Message", <<b, 2>>) :
        sid \in sessions, b \in InboundBatches}
    \cup {SignalMessage(AgentPath(sid), AgentInterface, "Message",
                        <<<<Record(1, Stringify(MsgBye), FALSE, <<>>)>>, 1>>) :
            sid \in sessions}

EchoSignals ==
    {SignalMessage(AgentPath(sid), AgentInterface, "Message", args) :
        sid \in sessions, args \in EchoedArgs}

Singles(msgs) == {<<m>> : m \in msgs}
Pairs(msgs) == {p \in msgs \X msgs : p[1] # p[2]}
SignalThenReply == {<<sig, r>> : sig \in TestSignals, r \in Replies}

\* Frames of the bus specification: one message, two replies or two signals
\* per frame.
ReceiveBusFrame ==
    \E messages \in Singles(Replies \cup Errors \cup TestSignals)
                    \cup Pairs(Replies) \cup Pairs(TestSignals) :
        ReceiveFrame(messages)

\* Frames that start with a signal: the signal alone, or with a second
\* signal or a method return behind it.
ReceiveSignalFrame ==
    \E messages \in Singles(TestSignals) \cup Pairs(TestSignals)
                    \cup SignalThenReply :
        ReceiveFrame(messages)

\* Errors with a message, with an empty message and with none.
AnyErrors ==
    Errors
    \cup {ErrorMessage(s, "re.frida.Error", <<"">>) : s \in Serials}
    \cup {ErrorMessage(s, "org.freedesktop.DBus.Error.Failed", <<>>) :
            s \in Serials}

\* Frames of one reply or error, or of a reply with an error behind it, for
\* any serials, the same one or two, pending or not.
ReplyFrames ==
    Singles(Replies \cup AnyErrors)
    \cup {<<r, e>> : r \in Replies, e \in Errors}

\* A frame of replies and errors arrives.
ReceiveReplyFrame ==
    \E messages \in ReplyFrames : ReceiveFrame(messages)

\* Frames of one signal or two.
SocketFrames == Singles(TestSignals) \cup Pairs(TestSignals)

\* A frame of signals arrives on the WebSocket.
SocketMessage ==
    \E messages \in SocketFrames :
        /\ transport = "open"
        /\ ws.received < MaxFrames
        /\ Step(OnSocketMessage(World, messages))

\* The read of a Blob completes: the reads that are pending complete in
\* any order.
ArrayBufferDone ==
    \E i \in 1..Len(ws.reads) :
        /\ transport = "open"
        /\ Step(OnArrayBufferDone(World, i))

ReceiveReply ==
    \E messages \in Singles(Replies \cup Errors) : ReceiveFrame(messages)

\* Method returns only: in the session specification a call fails by its
\* timer.
ReceiveReturn ==
    \E messages \in Singles(Replies) : ReceiveFrame(messages)

\* The remote answers a Close call with an error.
ReceiveCloseError ==
    \E messages \in Singles({e \in Errors :
                                /\ e.serial \in DOMAIN pendingCalls
                                /\ pendingCalls[e.serial].op = "close"}) :
        ReceiveFrame(messages)

\* The remote answers a pending call of the Client, with a result or with
\* an error.
ReceiveClientReply ==
    \E serial \in DOMAIN pendingCalls :
        \E messages \in Singles({MethodReturn(serial, a) :
                                    a \in ReplyArgs(serial)})
                        \cup Singles({e \in Errors : e.serial = serial}) :
            ReceiveFrame(messages)

ReceiveMessages ==
    \E messages \in Singles(MessageSignals) : ReceiveFrame(messages)

\* The remote script answers RPC requests with ok, for a request id and
\* addressed to a script of the session.
RpcOkSignals ==
    {SignalMessage(AgentPath(sid), AgentInterface, "Message",
                   <<<<Record(h, Stringify(MsgRpcOk(i)), FALSE, <<>>)>>, 1>>) :
        sid \in sessions, h \in Handles, i \in RequestIds}

ReceiveRpcOk ==
    \E messages \in Singles(RpcOkSignals) : ReceiveFrame(messages)

\* The remote script answers an export call that is pending.
ReceivePendingRpcOk ==
    \E sid \in sessions, h \in Handles, i \in RequestIds :
        /\ ToString(i) \in pendingRequests[<<sid, h>>]
        /\ ReceiveFrame(
               <<SignalMessage(AgentPath(sid), AgentInterface, "Message",
                               <<<<Record(h, Stringify(MsgRpcOk(i)), FALSE,
                                          <<>>)>>, 1>>)>>)

ReceiveEcho ==
    \E messages \in Singles(EchoSignals) : ReceiveFrame(messages)

\* Records of a batch: a log message and a send message with a log payload
\* for script 1, a log message for script 2, and a text that is not JSON.
BatchRecords ==
    {Record(1, Stringify(MsgLog), FALSE, <<>>),
     Record(1, Stringify(MsgSendLog), FALSE, <<>>),
     Record(2, Stringify(MsgLog), FALSE, <<>>),
     Record(1, BadText, FALSE, <<>>)}

\* Batches of one or two records, and one of three.
RecordBatches ==
    {<<r>> : r \in BatchRecords}
    \cup {<<r, q>> : r \in BatchRecords, q \in BatchRecords}
    \cup {<<Record(2, Stringify(MsgLog), FALSE, <<>>),
            Record(1, BadText, FALSE, <<>>),
            Record(1, Stringify(MsgLog), FALSE, <<>>)>>}

BatchIds == {1, 2}

BatchSignals ==
    {SignalMessage(AgentPath(sid), AgentInterface, "Message", <<b, id>>) :
        sid \in sessions, b \in RecordBatches, id \in BatchIds}

ReceiveBatch ==
    \E messages \in Singles(BatchSignals) : ReceiveFrame(messages)

\* script.logHandler = handler
SetLogHandler ==
    \E sc \in ScriptRefs, handler \in LogHandlers :
        /\ scriptState[sc] # "none"
        /\ logHandler[sc] # handler
        /\ Step(Script_setLogHandler(World, sc, handler))

\* script.message.connect(handler) with a handler that throws.
ConnectThrowing ==
    \E sc \in ScriptRefs, u \in ThrowingUserHandlers :
        /\ scriptState[sc] # "none"
        /\ IndexOf(listeners[sc].message, Proxy(u)) = 0
        /\ Step(SignalAdapter_addListener(World, sc, u))

\* Records for the scripts of a Session: log messages, the reply to the
\* first export call, and a message for the user.
ThrowRecords ==
    {Record(h, Stringify(MsgLog), FALSE, <<>>) : h \in Handles}
    \cup {Record(h, Stringify(MsgRpcOk(1)), FALSE, <<>>) : h \in Handles}
    \cup {Record(1, Stringify(MsgHello), FALSE, <<>>)}

ThrowSignals ==
    {SignalMessage(AgentPath(sid), AgentInterface, "Message", <<b, 1>>) :
        sid \in sessions,
        b \in {<<r>> : r \in ThrowRecords}
              \cup {<<r, q>> : r \in ThrowRecords, q \in ThrowRecords}}

\* A batch of one or two records arrives.
ReceiveThrowBatch ==
    \E messages \in Singles(ThrowSignals) : ReceiveFrame(messages)

----------------------------------------------------------------------------
(* Specifications.                                                         *)

\* The Bus alone, with callers and signal handlers that only record.
NextBus ==
    \/ CallMethod
    \/ AddSignalListener
    \/ RemoveSignalListener
    \/ CallTimeout
    \/ ReceiveBusFrame

SpecBus == InitBus /\ [][NextBus]_vars

\* The calls of a Bus: callers, timers, and replies and errors for any
\* serial, with handlers registered.
NextReplies ==
    \/ CallMethod
    \/ AddSignalListener
    \/ PendingCallTimeout
    \/ ReceiveReplyFrame

SpecReplies == InitBus /\ [][NextReplies]_vars

\* The Bus behind its WebSocket: frames that arrive as an ArrayBuffer or as
\* a Blob, and handlers that record.
NextSocket ==
    \/ AddSignalListener
    \/ SocketMessage
    \/ ArrayBufferDone

SpecSocket == InitSocket /\ [][NextSocket]_vars

\* The Bus with handlers that throw: callers, handlers that come and go, and
\* frames that have a message behind a signal.
NextHandlers ==
    \/ CallMethod
    \/ AddSignalListener
    \/ RemoveSignalListener
    \/ ReceiveSignalFrame

SpecHandlers == InitBus /\ [][NextHandlers]_vars

\* One attached Session: its callers, the replies to its calls, the timers
\* and the loss of the transport.
NextSession ==
    \/ CreateScript
    \/ PostHello
    \/ Unload
    \/ Detach
    \/ Resume
    \/ RemoteDetached
    \/ TransportClose
    \/ PendingCallTimeout
    \/ ReceiveReturn
    \/ ReceiveCloseError

SpecSession == InitScript /\ [][NextSession]_vars

\* A Client with or without a token: its operations, the events of its
\* transports, the replies to its calls and their timers.
NextClient ==
    \/ EnumerateProcesses
    \/ Attach
    \/ QuerySystemParameters
    \/ SocketOpen
    \/ SocketError
    \/ SocketClose
    \/ ReceiveClientReply
    \/ ClientCallTimeout

SpecClient == InitClient /\ [][NextClient]_vars

\* The states of a Session: resume() called in each of them, batches that
\* move lastRxBatchId, and the three ways to detach.
NextResume ==
    \/ Resume
    \/ ReceiveBatch
    \/ Detach
    \/ RemoteDetached
    \/ TransportClose
    \/ ReceiveReturn

SpecResume == InitScript /\ [][NextResume]_vars

\* The inbound path of a Session: batches of records for its scripts, in
\* every state of the Session and with one script or two.
NextInbound ==
    \/ ReceiveBatch
    \/ CreateScript
    \/ ReceiveReturn
    \/ Detach
    \/ RemoteDetached

SpecInbound == InitScript /\ [][NextInbound]_vars

\* Two Sessions over one connection: batches for either, and a Session that
\* the remote detaches.
NextDemux ==
    \/ ReceiveBatch
    \/ RemoteDetached

SpecDemux == InitTwoSessions /\ [][NextDemux]_vars

\* A call made while the transport is open: its message is sent.
SendCall == transport = "open" /\ CallMethod

\* The timer of call `serial` fires while the call is pending.
TimerFires(serial) ==
    /\ serial \in timers \cap DOMAIN pendingCalls
    /\ Step(OnCallTimeout([World EXCEPT !.timers = @ \ {serial}], serial))

\* The Bus with calls that are sent, a remote that answers some of them,
\* the loss of the transport, and the timers of the calls.
NextPending ==
    \/ SendCall
    \/ ReceiveClientReply
    \/ TransportClose
    \/ PendingCallTimeout

\* The same with the scheduling the runtime guarantees: the callback of a
\* setTimeout runs, so the timer of every pending call fires.
SpecPending ==
    /\ InitBus
    /\ [][NextPending]_vars
    /\ \A serial \in Serials : WF_vars(TimerFires(serial))

\* A Script with export calls that is unloaded, a remote that answers each
\* call with a result or with an error, or not before the timer fires, and
\* that answers the export calls.
NextUnloadFail ==
    \/ CallExport
    \/ Unload
    \/ ReceiveClientReply
    \/ PendingCallTimeout
    \/ ReceivePendingRpcOk

SpecUnloadFail == InitScript /\ [][NextUnloadFail]_vars

\* Two Scripts whose log handler the user replaces, export calls, and
\* batches of log records and replies.
NextThrow ==
    \/ SetLogHandler
    \/ CallExport
    \/ ReceiveThrowBatch

SpecThrow == InitTwoScripts /\ [][NextThrow]_vars

\* A Script with user handlers of its message signal, one of which throws.
NextThrowUser ==
    \/ Connect
    \/ ConnectThrowing
    \/ ReceiveThrowBatch

SpecThrowUser == InitScript /\ [][NextThrowUser]_vars

\* A Script that is unloaded while export calls are pending, and the
\* messages the remote sends before and after.
NextUnload ==
    \/ CallExport
    \/ Unload
    \/ ReceiveReturn
    \/ ReceiveMessages

SpecUnload == InitScript /\ [][NextUnload]_vars

\* The exports of the two scripts of a Session: callers that invoke them
\* and a remote that answers.
NextExports ==
    \/ InvokeExport
    \/ ReceiveReturn
    \/ ReceiveRpcOk

SpecExports == InitTwoScripts /\ [][NextExports]_vars

\* A Script with user message handlers that is unloaded, and the messages
\* the remote sends before and after.
NextDestroyed ==
    \/ Connect
    \/ Unload
    \/ ReceiveReturn
    \/ ReceiveMessages

SpecDestroyed == InitScript /\ [][NextDestroyed]_vars

\* One Script of an attached Session and the messages the remote sends it.
NextScript ==
    \/ Connect
    \/ Disconnect
    \/ CallExport
    \/ ReceiveMessages
    \/ ReceiveReturn

SpecScript == InitScript /\ [][NextScript]_vars

\* End to end: a Session attached with one script created, callers that
\* post, and a remote that echoes.
Next ==
    \/ Connect
    \/ Post
    \/ PostData
    \/ ReceiveReply
    \/ ReceiveEcho

Spec == InitScript /\ [][Next]_vars

\* The session specification with the scheduling the runtime guarantees: the
\* timer of a pending call fires, so every call issued completes.
SpecSessionLive ==
    InitScript /\ [][NextSession]_vars /\ WF_vars(PendingCallTimeout)

----------------------------------------------------------------------------
(* Properties.                                                             *)

\* The PostMessages calls written for a session, in order.
PostMessagesCalls(sid) ==
    SelectSeq(wire, LAMBDA c : /\ c.memberName = "PostMessages"
                               /\ c.objectPath = AgentPath(sid))

RECURSIVE Flatten(_)
Flatten(seqs) ==
    IF seqs = <<>> THEN <<>> ELSE Head(seqs) \o Flatten(Tail(seqs))

\* The records of the first n PostMessages calls of a session, concatenated.
SentUpTo(sid, n) ==
    Flatten([i \in 1..n |-> PostMessagesCalls(sid)[i].args[1]])

SentRecords(sid) == SentUpTo(sid, Len(PostMessagesCalls(sid)))

\* The serials of the PostMessages calls of a session that await their reply.
InFlight(sid) ==
    {s \in DOMAIN pendingCalls : /\ pendingCalls[s].op = "postMessages"
                                 /\ pendingCalls[s].sid = sid}

C1_Inv ==
    \A sid \in SessionIds :
        /\ pendingDeliveries[sid] \in {0, 1}
        /\ Cardinality(InFlight(sid)) = pendingDeliveries[sid]

C1_Act ==
    \A sid \in SessionIds :
        Len(PostMessagesCalls(sid)') > Len(PostMessagesCalls(sid)) =>
            /\ Len(PostMessagesCalls(sid)') = Len(PostMessagesCalls(sid)) + 1
            /\ \/ InFlight(sid) = {}
               \/ \E s \in InFlight(sid) : settled'[s] # settled[s]

\* C1: at most one postMessages call of a Session is in flight at any
\* instant: the in-flight delivery count is 0 or 1 and equals the number of
\* PostMessages calls awaiting their reply, and a step issues at most one new
\* PostMessages call, and only when none is in flight or the one in flight
\* has completed in that step.
C1_SingleFlight == []C1_Inv /\ [][C1_Act]_vars

\* C1 witness: a call is in flight while two later records wait in the queue.
C1_Witness ==
    /\ pendingDeliveries["a"] = 1
    /\ Cardinality(InFlight("a")) = 1
    /\ Len(pendingMessages["a"]) = 2

\* C2: the records of the successive PostMessages calls, concatenated and
\* followed by the records still queued, are the records posted, in the order
\* posted, each once; serials count up from 1 in posting order; every batch
\* is non-empty; every batch id is the serial of the last record of its
\* batch; batch ids strictly increase.
C2_Batches ==
    \A sid \in SessionIds :
        LET calls == PostMessagesCalls(sid)
            sent == SentRecords(sid)
            queued == pendingMessages[sid]
            all == posted[sid]
        IN /\ \A i \in 1..Len(all) : all[i].serial = i
           /\ Len(sent) + Len(queued) = Len(all)
           /\ \A i \in 1..Len(sent) : sent[i] = all[i].record
           /\ \A i \in 1..Len(queued) : queued[i] = all[Len(sent) + i]
           /\ \A i \in 1..Len(calls) :
                /\ Len(calls[i].args[1]) >= 1
                /\ calls[i].args[2] = all[Len(SentUpTo(sid, i))].serial
           /\ \A i \in 1..(Len(calls) - 1) :
                calls[i].args[2] < calls[i + 1].args[2]

\* C2 witness: the second batch carries the two records queued behind the
\* first, with batch id 3.
C2_Witness ==
    LET calls == PostMessagesCalls("a") IN
    /\ Len(calls) >= 2
    /\ Len(calls[1].args[1]) = 1
    /\ Len(calls[2].args[1]) = 2
    /\ calls[2].args[2] = 3

\* C3, as the claim states it: every record posted is eventually part of a
\* PostMessages call, given that every call issued completes, whatever
\* succeeded or failed before and with no further post.
C3_EventuallyIncluded ==
    \A sid \in SessionIds : \A i \in 1..MaxPosts :
        (Len(posted[sid]) >= i) ~> (Len(SentRecords(sid)) >= i)

C4_Act ==
    \A s \in DOMAIN settled :
        settled'[s] # settled[s] => s \in DOMAIN pendingCalls

\* C4: replies are matched by serial: a call is only ever resolved with the
\* arguments of the reply that carries its own serial (the remote of this
\* model answers call s with <<"result", s>>), whatever the order in which
\* the replies arrive, and a reply settles no call but a pending one.
C4_SerialMatch ==
    /\ [](\A s \in DOMAIN settled :
            \A i \in 1..Len(settled[s]) :
                settled[s][i].kind = "resolve" =>
                    settled[s][i].value = <<"result", s>>)
    /\ [][C4_Act]_vars

\* C4 witness: call 2 has been resolved with its own reply while call 1,
\* issued before it, still awaits its reply.
C4_Witness ==
    /\ Len(settled[2]) = 1
    /\ settled[2][1].kind = "resolve"
    /\ settled[2][1].value = <<"result", 2>>
    /\ 1 \in DOMAIN pendingCalls
    /\ settled[1] = <<>>

C5_Inv ==
    \A s \in DOMAIN settled :
        /\ Len(settled[s]) <= 1
        /\ settled[s] # <<>> => s \notin DOMAIN pendingCalls

C5_Act ==
    \A s \in DOMAIN settled :
        /\ (s \in timers /\ s \notin timers' /\ s \in DOMAIN pendingCalls) =>
              /\ s \notin DOMAIN pendingCalls'
              /\ Len(settled'[s]) = 1
              /\ settled'[s][1].kind = "reject"
              /\ settled'[s][1].value = [message |-> "D-Bus call timeout"]
        /\ settled[s] # <<>> =>
              /\ Len(settled'[s]) = Len(settled[s])
              /\ settled'[s] = settled[s]

\* C5: when the timer of a call fires while the call is pending, the call
\* leaves the pending table and is rejected with the timeout error; once a
\* call is settled nothing settles it again (a late reply is dropped, a
\* timer that fires after the reply does nothing): every call is settled at
\* most once and a settled call is not pending.
C5_Timeout == []C5_Inv /\ [][C5_Act]_vars

\* C5 witness: call 1 was rejected by its timer, call 2 was resolved by its
\* reply and its timer has fired since.
C5_Witness ==
    /\ Len(settled[1]) = 1
    /\ settled[1][1].kind = "reject"
    /\ settled[1][1].value = [message |-> "D-Bus call timeout"]
    /\ Len(settled[2]) = 1
    /\ settled[2][1].kind = "resolve"
    /\ 2 \notin timers
    /\ serialCounter > 2

\* The handler invocations a frame's signals call for: per signal, in frame
\* order, the handlers registered under its key, in registration order, each
\* with the signal's arguments.
RECURSIVE FanOut(_, _)
FanOut(signals, handlers) ==
    IF signals = <<>> THEN <<>>
    ELSE LET sig == Head(signals)
             key == <<sig.objectPath, sig.interfaceName, sig.memberName>>
             hs == IF key \in DOMAIN handlers THEN handlers[key] ELSE <<>>
         IN [i \in 1..Len(hs) |->
                [handler |-> hs[i].id, key |-> key, args |-> sig.args]]
            \o FanOut(Tail(signals), handlers)

C6_Inv == handlerLog = FanOut(lastSignals, signalHandlers)

C6_Act ==
    \A key \in DOMAIN signalHandlers :
        LET old == signalHandlers[key]
            new == signalHandlers'[key]
        IN \/ new = old
           \/ /\ Len(new) = Len(old) + 1
              /\ SubSeq(new, 1, Len(old)) = old
           \/ \E i \in 1..Len(old) :
                /\ new = SubSeq(old, 1, i - 1) \o SubSeq(old, i + 1, Len(old))
                /\ \A j \in 1..Len(new) : new[j] # old[i]

\* C6: a signal invokes exactly the handlers registered under its key at
\* that moment, each once, in registration order, with the signal's
\* arguments, and no handler of another key; registering appends to the
\* key's list and removing takes one handler out of it, so that a later
\* signal invokes the remaining ones only.
C6_FanOut == []C6_Inv /\ [][C6_Act]_vars

\* C6 witness: one Ping signal arrived with h2 and h1 registered under Ping,
\* in that order, and both were invoked, h2 first.
C6_Witness ==
    LET ping == SignalKey(TestPath, "test.Iface", "Ping") IN
    /\ Len(lastSignals) = 1
    /\ lastSignals[1].memberName = "Ping"
    /\ signalHandlers[ping] = <<PlainHandler("h2"), PlainHandler("h1")>>
    /\ Len(handlerLog) = 2
    /\ handlerLog[1] = [handler |-> "h2", key |-> ping, args |-> <<"x">>]
    /\ handlerLog[2] = [handler |-> "h1", key |-> ping, args |-> <<"x">>]

\* The texts of the messages a remote script sends.
InboundText == [m \in InboundMessages |-> Stringify(m)]

\* The frame of the last step was one Message signal for the session of sc
\* carrying the one record (Script, handle of sc, text of message, no data).
Arrived(sc, message, signals) ==
    /\ Len(signals) = 1
    /\ signals[1].objectPath = AgentPath(sc[1])
    /\ signals[1].interfaceName = AgentInterface
    /\ signals[1].memberName = "Message"
    /\ signals[1].args[1] = <<<<1, <<sc[2]>>, InboundText[message], FALSE, <<>> >>>>

RpcOkOutcome == [kind |-> "resolve", value |-> Str("result")]
RpcErrorOutcome ==
    [kind |-> "reject",
     value |-> [message |-> Str("emsg"), name |-> Str("ename"),
                stack |-> Str("estack")]]

C7_Inv ==
    /\ \A sc \in ScriptRefs : \A id \in RpcIds :
          /\ Len(rpcLog[sc][id]) <= 1
          /\ rpcLog[sc][id] # <<>> => id \notin pendingRequests[sc]
    /\ \A i \in 1..Len(userLog) :
          userLog[i].message \notin
              {MsgRpcOk(n) : n \in RequestIds}
              \cup {MsgRpcError(n) : n \in RequestIds}

C7_Act ==
    \A sc \in ScriptRefs : \A n \in RequestIds :
        LET id == ToString(n)
            ok == Arrived(sc, MsgRpcOk(n), lastSignals')
            err == Arrived(sc, MsgRpcError(n), lastSignals')
            known == IndexOf(scripts[sc[1]], sc[2]) > 0
            pending == id \in pendingRequests[sc]
        IN /\ (ok /\ known /\ pending) =>
                /\ rpcLog'[sc][id] = <<RpcOkOutcome>>
                /\ id \notin pendingRequests'[sc]
           /\ (err /\ known /\ pending) =>
                /\ rpcLog'[sc][id] = <<RpcErrorOutcome>>
                /\ id \notin pendingRequests'[sc]
           /\ ((ok \/ err) /\ ~pending) =>
                /\ rpcLog'[sc] = rpcLog[sc]
                /\ pendingRequests'[sc] = pendingRequests[sc]
           /\ (ok \/ err) => userLog' = <<>>
           /\ rpcLog'[sc][id] # rpcLog[sc][id] => (ok \/ err)

\* C7: an inbound send message whose payload is ["frida:rpc", id, op, ...]:
\* with the request id pending, "ok" resolves the request with params[0] and
\* "error" rejects it with the message, name and stack of params, and the
\* request is pending no longer, so every request is completed at most once;
\* with the id not pending nothing changes; nothing else completes a
\* request; and no user message handler is ever given such a message.
C7_RpcClassification == []C7_Inv /\ [][C7_Act]_vars

\* C7 witness: with user handler u1 connected, the "ok" reply to request 1
\* arrived: the request is resolved with "result" and u1 was not invoked.
C7_Witness ==
    /\ Arrived(<<"a", 1>>, MsgRpcOk(1), lastSignals)
    /\ IndexOf(listeners[<<"a", 1>>].message, Proxy("u1")) > 0
    /\ rpcLog[<<"a", 1>>]["1"] = <<RpcOkOutcome>>
    /\ "1" \notin pendingRequests[<<"a", 1>>]
    /\ userLog = <<>>

\* C8, as the claim states it: a log-typed message (type "log", or type
\* "send" with a payload object of type "log") is given to the log handler
\* and never to a user message handler.
C8_LogRouting ==
    /\ \A m \in {MsgLog, MsgSendLog} :
          Arrived(<<"a", 1>>, m, lastSignals) =>
              logLog = <<[script |-> <<"a", 1>>, level |-> Get(m, "level"),
                          text |-> Get(m, "payload")]>>
    /\ \A i \in 1..Len(userLog) :
          userLog[i].message \notin {MsgLog, MsgSendLog}

\* JSON.stringify of the two plain messages, written out.
HelloText ==
    <<"{", "\"", "type", "\"", ":", "\"", "send", "\"", ",",
      "\"", "payload", "\"", ":",
      "{", "\"", "hello", "\"", ":", "1", "}", "}">>
ByeText ==
    <<"{", "\"", "type", "\"", ":", "\"", "send", "\"", ",",
      "\"", "payload", "\"", ":", "\"", "bye", "\"", "}">>

\* The user handler calls an inbound message for a script calls for: every
\* connected handler, in connection order, with the message and null data.
Deliveries(sc, message) ==
    LET proxies == SelectSeq(listeners[sc].message,
                             LAMBDA l : l.k = "proxy")
    IN [i \in 1..Len(proxies) |->
           [script |-> sc, handler |-> proxies[i].id,
            message |-> message, data |-> [k |-> "null"]]]

\* C9: the first post of a Session issues at once one PostMessages call with
\* batch id 1 and the one record posted, which for a post without binary
\* data is (kind 1, the script's handle, the JSON text of the message, false,
\* no bytes); and when a Message signal of the session brings that record
\* back, every connected user message handler of the script is given the
\* message posted, with null data, once.
C9_EndToEnd ==
    LET sid == "a"
        calls == PostMessagesCalls(sid)
        first == posted[sid][1].record
    IN /\ Len(posted[sid]) >= 1 =>
            /\ Len(calls) >= 1
            /\ calls[1].args = <<<<first>>, 1>>
            /\ Len(posted[sid]) = 1 => Len(calls) = 1
            /\ first[4] = FALSE =>
                  first \in {<<1, <<h>>, text, FALSE, <<>> >> :
                                h \in Handles, text \in {HelloText, ByeText}}
            /\ first[2] \in {<<h>> : h \in {g \in Handles :
                                              scriptState[<<sid, g>>] # "none"}}
       /\ \A sc \in ScriptRefs :
            /\ (/\ Len(lastSignals) = 1
                /\ lastSignals[1].memberName = "Message"
                /\ lastSignals[1].args[1] =
                       <<<<1, <<sc[2]>>, HelloText, FALSE, <<>> >>>>
                /\ IndexOf(scripts[sc[1]], sc[2]) > 0) =>
                   userLog = Deliveries(sc, MsgHello)
            /\ (/\ Len(lastSignals) = 1
                /\ lastSignals[1].memberName = "Message"
                /\ lastSignals[1].args[1] =
                       <<<<1, <<sc[2]>>, ByeText, FALSE, <<>> >>>>
                /\ IndexOf(scripts[sc[1]], sc[2]) > 0) =>
                   userLog = Deliveries(sc, MsgBye)

\* C9 witness: the first post was {type: "send", payload: {hello: 1}} by
\* script 1, its record came back in a Message signal, and the handlers u2
\* and u1, connected in that order, were each given the message.
C9_Witness ==
    /\ Len(posted["a"]) >= 1
    /\ posted["a"][1].record = <<1, <<1>>, HelloText, FALSE, <<>> >>
    /\ PostMessagesCalls("a")[1].args[2] = 1
    /\ Len(lastSignals) = 1
    /\ lastSignals[1].args = PostMessagesCalls("a")[1].args
    /\ userLog = <<[script |-> <<"a", 1>>, handler |-> "u2",
                    message |-> MsgHello, data |-> [k |-> "null"]],
                   [script |-> <<"a", 1>>, handler |-> "u1",
                    message |-> MsgHello, data |-> [k |-> "null"]]>>

\* The Close calls written for a session.
CloseCalls(sid) ==
    SelectSeq(wire, LAMBDA c : /\ c.memberName = "Close"
                               /\ c.objectPath = AgentPath(sid))

ClosePending(sid) ==
    \E s \in DOMAIN pendingCalls : /\ pendingCalls[s].op = "close"
                                   /\ pendingCalls[s].sid = sid

C10_Inv ==
    \A sid \in SessionIds :
        /\ Len(detachedLog[sid]) <= 1
        /\ Len(CloseCalls(sid)) <= 1
        /\ \A h \in Handles : destroyedCount[<<sid, h>>] <= 1
        /\ state[sid] # "detached" =>
              detachedLog[sid] = <<>> /\ CloseCalls(sid) = <<>>
        /\ (state[sid] = "detached" /\ Len(CloseCalls(sid)) = 1) =>
              IF ClosePending(sid)
              THEN detachedLog[sid] = <<>>
              ELSE detachedLog[sid] =
                       <<[reason |-> "application-requested",
                          crash |-> "null"]>>
        /\ (state[sid] = "detached" /\ Len(CloseCalls(sid)) = 0) =>
              /\ Len(detachedLog[sid]) = 1
              /\ detachedLog[sid][1].reason \in
                     {"process-terminated", "connection-terminated"}

C10_Act ==
    \A sid \in SessionIds :
        /\ state[sid] = "detached" =>
              /\ state'[sid] = "detached"
              /\ CloseCalls(sid)' = CloseCalls(sid)
              /\ detachedLog[sid] # <<>> => detachedLog'[sid] = detachedLog[sid]
              /\ \A h \in Handles :
                    destroyedCount[<<sid, h>>] = 1 =>
                        destroyedCount'[<<sid, h>>] = 1
        /\ (state[sid] = "attached" /\ state'[sid] = "detached") =>
              /\ \A h \in Handles :
                    scriptState[<<sid, h>>] # "none" =>
                        /\ scriptState'[<<sid, h>>] = "destroyed"
                        /\ destroyedCount'[<<sid, h>>] = 1
              /\ IF Len(CloseCalls(sid)') = 1
                 THEN detachedLog'[sid] = <<>>
                 ELSE IF transport = "open" /\ transport' = "closed"
                 THEN detachedLog'[sid] =
                          <<[reason |-> "connection-terminated",
                             crash |-> "null"]>>
                 ELSE detachedLog'[sid] =
                          <<[reason |-> "process-terminated",
                             crash |-> "null"]>>

\* C10: a Session is detached once: the first trigger (detach(), a remote
\* detach notification or the loss of the transport) moves it to detached
\* and destroys its scripts; later triggers change nothing; the "detached"
\* notification is emitted at most once, at once with the reason of the
\* first trigger, or, for detach(), once when the Close call has completed;
\* every script's "destroyed" event is emitted at most once; at most one
\* Close call is issued.
C10_DetachOnce == []C10_Inv /\ [][C10_Act]_vars

\* C10 witness: detach() issued Close, the transport was lost as well, the
\* Close call has completed, and there is one notification, with the reason
\* of detach(); script 1 was destroyed once.
C10_Witness ==
    /\ state["a"] = "detached"
    /\ Len(CloseCalls("a")) = 1
    /\ ~ClosePending("a")
    /\ transport = "closed"
    /\ detachedLog["a"] =
           <<[reason |-> "application-requested", crash |-> "null"]>>
    /\ destroyedCount[<<"a", 1>>] = 1

C14_Inv ==
    \A sid \in SessionIds :
        (/\ Len(CloseCalls(sid)) = 1
         /\ settled[CloseCalls(sid)[1].serial] # <<>>) =>
            detachedLog[sid] =
                <<[reason |-> "application-requested", crash |-> "null"]>>

C14_Act ==
    \A sid \in SessionIds :
        /\ (state[sid] = "attached" /\ Len(CloseCalls(sid)') = 1) =>
              /\ state'[sid] = "detached"
              /\ scripts'[sid] = <<>>
              /\ \A h \in Handles :
                    scriptState[<<sid, h>>] # "none" =>
                        scriptState'[<<sid, h>>] = "destroyed"
              /\ ClosePending(sid)'
              /\ detachedLog'[sid] = <<>>
        /\ (ClosePending(sid) /\ ~ClosePending(sid)') =>
              detachedLog'[sid] =
                  <<[reason |-> "application-requested", crash |-> "null"]>>

\* C14: detach() on an attached Session sets the state to detached,
\* destroys every script and empties the registry in the step that issues
\* Close, before Close is answered; when the Close call completes, with a
\* reply, an error reply or a timeout, the application-requested
\* notification is emitted: a failed Close does not end detach() early.
C14_DetachSucceeds == []C14_Inv /\ [][C14_Act]_vars

\* C14 witness: the remote answered Close with an error and the
\* notification was emitted all the same; script 1 is destroyed.
C14_Witness ==
    /\ Len(CloseCalls("a")) = 1
    /\ Len(settled[CloseCalls("a")[1].serial]) = 1
    /\ settled[CloseCalls("a")[1].serial][1].kind = "reject"
    /\ settled[CloseCalls("a")[1].serial][1].value.message = "D-Bus Error"
    /\ state["a"] = "detached"
    /\ scriptState[<<"a", 1>>] = "destroyed"
    /\ detachedLog["a"] =
           <<[reason |-> "application-requested", crash |-> "null"]>>

\* A PostMessages call of the session is rejected in this step.
Fails(sid, s) ==
    /\ s \in InFlight(sid)
    /\ Len(settled'[s]) = Len(settled[s]) + 1
    /\ settled'[s][Len(settled'[s])].kind = "reject"

C15_Act ==
    \A sid \in SessionIds :
        /\ \A s \in DOMAIN settled :
              Fails(sid, s) =>
                  /\ pendingDeliveries'[sid] = 0
                  /\ InFlight(sid)' = {}
                  /\ pendingMessages'[sid] = pendingMessages[sid]
                  /\ PostMessagesCalls(sid)' = PostMessagesCalls(sid)
        /\ (Len(posted'[sid]) = Len(posted[sid]) + 1
            /\ pendingDeliveries[sid] = 0) =>
              LET calls == PostMessagesCalls(sid)' IN
              /\ Len(calls) = Len(PostMessagesCalls(sid)) + 1
              /\ Len(calls[Len(calls)].args[1]) = Len(pendingMessages[sid]) + 1
              /\ pendingMessages'[sid] = <<>>

\* C15: when a PostMessages call fails, the in-flight count returns to 0,
\* the queue is left as it was (the failed batch is not put back) and no
\* call is issued; a record that has been sent is never sent again; and a
\* post made while nothing is in flight issues a new call, which carries the
\* queue and the record posted.
C15_FailedBatch ==
    /\ [](\A sid \in SessionIds :
             /\ Len(SentRecords(sid)) + Len(pendingMessages[sid])
                    = Len(posted[sid])
             /\ \A i \in 1..Len(SentRecords(sid)) :
                    SentRecords(sid)[i] = posted[sid][i].record)
    /\ [][C15_Act]_vars

\* C15 witness: the first PostMessages call failed and a second one was
\* issued after it.
C15_Witness ==
    LET calls == PostMessagesCalls("a") IN
    /\ Len(calls) >= 2
    /\ Len(settled[calls[1].serial]) = 1
    /\ settled[calls[1].serial][1].kind = "reject"
    /\ calls[2].args[2] > calls[1].args[2]

C18_Act ==
    \A sid \in SessionIds :
        (/\ state[sid] = "attached"
         /\ state'[sid] = "detached"
         /\ Len(CloseCalls(sid)') = 0) =>
            /\ wire' = wire
            /\ pendingCalls' = pendingCalls
            /\ serialCounter' = serialCounter
            /\ scripts'[sid] = <<>>
            /\ \A h \in Handles :
                  scriptState[<<sid, h>>] # "none" =>
                      /\ scriptState'[<<sid, h>>] = "destroyed"
                      /\ destroyedCount'[<<sid, h>>] = 1
            /\ detachedLog'[sid] =
                  <<[reason |-> IF transport' # transport
                                THEN "connection-terminated"
                                ELSE "process-terminated",
                     crash |-> "null"]>>

\* C18: a detach notification of the remote side, or the loss of the
\* transport, on an attached Session sets the state to detached, destroys
\* every script, empties the registry and emits the notification with the
\* reason and crash given, in that step, and writes no call: the wire, the
\* pending calls and the serial counter are as before, and no Close call is
\* ever written for it.
C18_RemoteDetach ==
    /\ [](\A sid \in SessionIds :
             (/\ Len(detachedLog[sid]) = 1
              /\ detachedLog[sid][1].reason # "application-requested") =>
                 CloseCalls(sid) = <<>>)
    /\ [][C18_Act]_vars

\* C18 witness: the remote side detached the Session: no Close call was
\* written, script 1 was destroyed once, the registry is empty and the
\* notification carries process-terminated.
C18_Witness ==
    /\ state["a"] = "detached"
    /\ CloseCalls("a") = <<>>
    /\ scripts["a"] = <<>>
    /\ destroyedCount[<<"a", 1>>] = 1
    /\ detachedLog["a"] =
           <<[reason |-> "process-terminated", crash |-> "null"]>>

\* The signals of a frame, in order.
SignalsOf(frame) ==
    SelectSeq(frame, LAMBDA msg : msg.messageType = "Signal")

\* What a frame must have done to the calls: a method return for a pending
\* call resolves it with its arguments, every other call is left alone.
CallsAfter(frame) ==
    \A s \in DOMAIN settled :
        LET returns == SelectSeq(frame, LAMBDA msg :
                                     /\ msg.messageType = "MethodReturn"
                                     /\ msg.serial = s)
        IN IF returns # <<>> /\ s \in DOMAIN pendingCalls
           THEN /\ s \notin DOMAIN pendingCalls'
                /\ settled'[s] = Append(settled[s], Resolve(returns[1].args))
           ELSE /\ settled'[s] = settled[s]
                /\ (s \in DOMAIN pendingCalls) = (s \in DOMAIN pendingCalls')

\* No call is rejected in this step.
NoneRejected ==
    \A s \in DOMAIN settled :
        Len(settled'[s]) > Len(settled[s]) =>
            settled'[s][Len(settled'[s])].kind = "resolve"

C17_Act ==
    \A frame \in Pairs(TestSignals) \cup SignalThenReply :
        (/\ lastSignals' # <<>>
         /\ lastSignals'[1] = frame[1]
         /\ NoneRejected
         /\ ReceiveFrame(frame)) =>
            /\ lastSignals' = SignalsOf(frame)
            /\ handlerLog' = FanOut(SignalsOf(frame), signalHandlers)
            /\ CallsAfter(frame)
            /\ signalHandlers' = signalHandlers

\* C17: a signal handler that throws does not stop the frame: for a frame
\* of two signals, or of a signal with a method return behind it, every
\* handler registered under each signal's key is invoked, those behind a
\* throwing handler included, the method return resolves its pending call,
\* and every other pending call stays pending with nothing settled.
C17_HandlerIsolation == [][C17_Act]_vars

\* C17 witness: a Ping signal arrived with the throwing handler h2 registered
\* before h1: both were invoked, and the method return behind the signal in
\* the same frame resolved call 1.
C17_Witness ==
    LET ping == SignalKey(TestPath, "test.Iface", "Ping") IN
    /\ signalHandlers[ping] = <<PlainHandler("h2"), PlainHandler("h1")>>
    /\ "h2" \in ThrowingHandlerIds
    /\ Len(lastSignals) = 1
    /\ Len(handlerLog) = 2
    /\ handlerLog[1].handler = "h2"
    /\ handlerLog[2].handler = "h1"
    /\ 1 \notin DOMAIN pendingCalls
    /\ 2 \in DOMAIN pendingCalls
    /\ Len(settled[1]) = 1
    /\ settled[1][1].kind = "resolve"

\* The log handler calls a batch calls for, given the registry: in batch
\* order, one for each record that names a script of the registry and whose
\* text is a log message; a record for a handle not in the registry and a
\* record whose text is not JSON contribute nothing.
RECURSIVE ExpectedLogs(_, _, _)
ExpectedLogs(sid, registry, records) ==
    IF records = <<>> THEN <<>>
    ELSE LET r == Head(records)
             known == \E i \in 1..Len(registry) : registry[i] = r[2][1]
             entry ==
                 IF known /\ r[3] = InboundText[MsgLog]
                 THEN <<[script |-> <<sid, r[2][1]>>, level |-> Str("info"),
                         text |-> Str("text")]>>
                 ELSE IF known /\ r[3] = InboundText[MsgSendLog]
                 THEN <<[script |-> <<sid, r[2][1]>>, level |-> Undefined,
                         text |-> Get(MsgSendLog, "payload")]>>
                 ELSE <<>>
         IN entry \o ExpectedLogs(sid, registry, Tail(records))

C19_Act ==
    \A sid \in SessionIds :
        (/\ Len(lastSignals') = 1
         /\ lastSignals'[1].objectPath = AgentPath(sid)
         /\ lastSignals'[1].memberName = "Message") =>
            /\ lastRxBatchId'[sid] = lastSignals'[1].args[2]
            /\ logLog' = ExpectedLogs(sid, scripts[sid], lastSignals'[1].args[1])

\* C19: a Message signal with (records, batchId) sets lastRxBatchId to
\* batchId in every state of the Session, a lower batchId included, and
\* gives each record, in order, to its script; a record for a handle that is
\* not in the registry and a record whose text is not JSON are dropped, and
\* the records behind them in the batch are dispatched all the same.
C19_Dispatch == [][C19_Act]_vars

\* C19 witness: the batch (record for the unknown script 2, record with a
\* malformed text, log record for script 1) arrived with batchId 1: the log
\* record was dispatched and lastRxBatchId is 1.
C19_Witness ==
    /\ Len(lastSignals) = 1
    /\ lastSignals[1].memberName = "Message"
    /\ Len(lastSignals[1].args[1]) = 3
    /\ lastSignals[1].args[1][1][2] = <<2>>
    /\ lastSignals[1].args[1][2][3] = BadText
    /\ lastSignals[1].args[2] = 1
    /\ scripts["a"] = <<1>>
    /\ lastRxBatchId["a"] = 1
    /\ logLog = <<[script |-> <<"a", 1>>, level |-> Str("info"),
                   text |-> Str("text")]>>

\* The export calls of a destroyed Script stay as they are: none is resolved
\* or rejected.
Abandoned ==
    \A sc \in ScriptRefs :
        scriptState[sc] = "destroyed" => rpcLog'[sc] = rpcLog[sc]

\* The abandonment half of C20 on its own.
UnloadAbandons == [][Abandoned]_vars

\* C20: once unload() has completed the Script is destroyed and its
\* pending-request table is empty, and no export call of it is resolved or
\* rejected from then on, whatever RPC reply arrives.
C20_Unload ==
    /\ [](\A sc \in ScriptRefs :
             scriptState[sc] = "destroyed" => pendingRequests[sc] = {})
    /\ [][Abandoned]_vars

\* An unloaded Script with export call 1 left in its table, at the arrival
\* of the ok reply to that call: the call has no outcome.
UnloadedWithPending ==
    /\ scriptState[<<"a", 1>>] = "destroyed"
    /\ "1" \in pendingRequests[<<"a", 1>>]
    /\ Arrived(<<"a", 1>>, MsgRpcOk(1), lastSignals)
    /\ rpcLog[<<"a", 1>>]["1"] = <<>>

\* The WebSocket state, the attempt and the calls written of transport t.
Ws(t) == Bus(World, t).transport
Attempt(t) == links[t].attempt
WireOf(t) == Bus(World, t).wire
\* An attempt is in flight: its transport was created and its promise is
\* not settled.
InFlightAttempts == {t \in Transports : Ws(t) # "none" /\ Attempt(t) = <<>>}
Live == {t \in Transports : Ws(t) \in {"connecting", "open"}}
Started == Len(ops') = Len(ops) + 1

\* One transport at a time is connecting or open.
OneLiveTransport == Cardinality(Live) <= 1

\* Operations that awaited the same attempt got the same connection or the
\* same failure, the outcome of that attempt.
SameResult ==
    \A i \in DOMAIN ops :
        ops[i].connection # <<>> =>
            /\ Attempt(ops[i].attempt) # <<>>
            /\ ops[i].connection[1].kind = Attempt(ops[i].attempt)[1].kind
            /\ ops[i].connection[1] = Attempt(ops[i].attempt)[1]

\* An operation started while the memoized attempt is pending joins it.
JoinsMemoized ==
    (Started /\ hostConnectionRequest \in InFlightAttempts) =>
        /\ ops'[Len(ops')].attempt = hostConnectionRequest
        /\ hostConnectionRequest' = hostConnectionRequest
        /\ \A t \in Transports : Ws(t) = "none" => Ws(t)' = "none"

\* What holds of the memo: one live transport, shared outcomes, and joining
\* the attempt that the slot holds.
Memoized == [](OneLiveTransport /\ SameResult) /\ [][JoinsMemoized]_vars

C11_Act ==
    (Started /\ InFlightAttempts # {}) =>
        /\ ops'[Len(ops')].attempt \in InFlightAttempts
        /\ \A t \in Transports : Ws(t) = "none" => Ws(t)' = "none"

\* C11: an operation started while a connection attempt is in flight opens
\* no transport and awaits that attempt; operations that await the same
\* attempt get the same connection or the same failure; at most one
\* transport is connecting or open at any time.
C11_Memoization ==
    [](OneLiveTransport /\ SameResult) /\ [][C11_Act]_vars

\* Two attempts in flight at once: the first transport closed while its
\* Authenticate call was pending, and an operation started after that.
TwoAttempts ==
    /\ token
    /\ InFlightAttempts = {1, 2}
    /\ Ws(1) = "closed"
    /\ Len(ops) = 2
    /\ ops[1].attempt = 1
    /\ ops[2].attempt = 2

C12_Act ==
    /\ \A t \in Transports :
          (/\ links[t].closeListener
           /\ Ws(t) # "closed"
           /\ Ws(t)' = "closed") =>
              /\ hostConnectionRequest' = 0
              /\ \A sid \in sessions :
                    /\ state'[sid] = "detached"
                    /\ IF state[sid] = "attached"
                       THEN detachedLog'[sid] =
                                <<[reason |-> "connection-terminated",
                                   crash |-> "null"]>>
                       ELSE detachedLog'[sid] = detachedLog[sid]
              /\ sessions' = sessions
    /\ (Started /\ hostConnectionRequest = 0) =>
          \E t \in Transports :
              /\ hostConnectionRequest' = t
              /\ Ws(t) = "none"
              /\ Ws(t)' = "connecting"
              /\ Attempt(t)' = <<>>
              /\ ops'[Len(ops')].attempt = t

\* C12: in the step in which a transport that had opened closes, the
\* connection slot becomes null and every Session of the registry is
\* detached: one that was attached gets the connection-terminated
\* notification, one that was detached already is left as it was; the slot
\* never holds a transport that has opened and closed, and the operation
\* started next creates a transport that did not exist and awaits it.
C12_TransportClose ==
    /\ [](hostConnectionRequest # 0 =>
             (Ws(hostConnectionRequest) = "closed" =>
                 WireOf(hostConnectionRequest) = <<>>))
    /\ [][C12_Act]_vars

\* C12 witness: sessions "a" and "b" were attached over transports 1 and 2
\* and both transports have closed: both are detached with
\* connection-terminated and the slot is null.
C12_Witness ==
    /\ sessions = {"a", "b"}
    /\ Ws(1) = "closed"
    /\ Ws(2) = "closed"
    /\ hostConnectionRequest = 0
    /\ \A sid \in sessions :
          /\ state[sid] = "detached"
          /\ detachedLog[sid] =
                 <<[reason |-> "connection-terminated", crash |-> "null"]>>

\* The Authenticate calls among the calls written to transport t.
AuthenticateCalls(t) ==
    SelectSeq(WireOf(t), LAMBDA c : c.memberName = "Authenticate")

\* The outcomes of the first call of transport t.
FirstCall(t) == Bus(World, t).settled[1]

C13_Inv ==
    \A t \in Transports :
        /\ ~token => AuthenticateCalls(t) = <<>>
        /\ token =>
              /\ Ws(t) = "open" => WireOf(t) # <<>>
              /\ WireOf(t) # <<>> =>
                    /\ WireOf(t)[1].memberName = "Authenticate"
                    /\ WireOf(t)[1].args = <<"token">>
                    /\ Len(AuthenticateCalls(t)) = 1
              /\ Len(WireOf(t)) >= 2 =>
                    /\ Len(FirstCall(t)) = 1
                    /\ FirstCall(t)[1].kind = "resolve"
              /\ (FirstCall(t) # <<>> /\ FirstCall(t)[1].kind = "reject") =>
                    /\ Attempt(t) # <<>>
                    /\ Attempt(t)[1].kind = "reject"
                    /\ Len(WireOf(t)) = 1
                    /\ \A key \in DOMAIN Bus(World, t).signalHandlers :
                          Bus(World, t).signalHandlers[key] = <<>>
                    /\ \A i \in DOMAIN ops :
                          (ops[i].attempt = t /\ ops[i].result # <<>>) =>
                              ops[i].result[1].kind = "reject"

\* C13: with a token, a transport that opens is sent one Authenticate call,
\* with the token, as its first call, and any other call only once
\* Authenticate has been answered with a result; if Authenticate is
\* answered with an error or times out, the attempt is rejected, no other
\* call is written to the transport, no Session is subscribed on it and
\* every operation of the attempt fails. Without a token no Authenticate
\* call is written.
C13_Authenticate == []C13_Inv

\* C13 witness: with a token, transport 1 carried Authenticate and then
\* Attach, and session "a" is attached.
C13_Witness ==
    /\ token
    /\ Len(WireOf(1)) = 2
    /\ WireOf(1)[1].memberName = "Authenticate"
    /\ WireOf(1)[2].memberName = "Attach"
    /\ state["a"] = "attached"

\* The keys of a reply whose value is a variant of two elements.
VariantKeys(list) ==
    {At(list.items[j].items, 0).s :
        j \in {n \in 1..Len(list.items) :
                  /\ At(list.items[n].items, 1).k = "arr"
                  /\ Len(At(list.items[n].items, 1).items) = 2}}

\* The value of the last variant of two elements under the key.
VariantValue(list, key) ==
    LET js == {n \in 1..Len(list.items) :
                  /\ At(list.items[n].items, 0) = Str(key)
                  /\ At(list.items[n].items, 1).k = "arr"
                  /\ Len(At(list.items[n].items, 1).items) = 2}
        last == CHOOSE n \in js : \A m \in js : m <= n
    IN At(At(list.items[last].items, 1).items, 1)

\* The result of querySystemParameters maps exactly the keys that have a
\* variant, each to the variant's value.
Decodes(result, list) ==
    /\ result.k = "obj"
    /\ {result.pairs[j][1] : j \in 1..Len(result.pairs)} = VariantKeys(list)
    /\ \A key \in VariantKeys(list) :
          /\ Get(result, key).k = VariantValue(list, key).k
          /\ Get(result, key) = VariantValue(list, key)

\* The reply that resolved a call in this step.
Resolved(list) ==
    \E s \in DOMAIN settled :
        /\ Len(settled'[s]) = Len(settled[s]) + 1
        /\ settled'[s][Len(settled'[s])].kind = "resolve"
        /\ settled'[s][Len(settled'[s])].value = <<list>>

QueryDone(i) ==
    /\ ops[i].kind = "QuerySystemParameters"
    /\ ops[i].result = <<>>
    /\ ops'[i].result # <<>>
    /\ ops'[i].result[1].kind = "resolve"

\* The lists whose variants hold strings and numbers only.
Scalar(list) ==
    \A key \in VariantKeys(list) :
        VariantValue(list, key).k \in {"str", "num"}

\* The decode of replies whose values are strings and numbers.
DecodesScalars ==
    [][\A i \in DOMAIN ops : \A list \in ParameterLists :
          (QueryDone(i) /\ Resolved(list) /\ Scalar(list)) =>
              Decodes(ops'[i].result[1].value, list)]_vars

\* C16: querySystemParameters resolves with an object that has exactly the
\* keys of the reply whose value is a variant of two elements, each with
\* the value of its variant.
C16_Decode ==
    [][\A i \in DOMAIN ops : \A list \in ParameterLists :
          (QueryDone(i) /\ Resolved(list)) =>
              Decodes(ops'[i].result[1].value, list)]_vars

\* The example of the claim: os linux, arch x64.
ExampleDecoded ==
    \E i \in DOMAIN ops :
        /\ ops[i].kind = "QuerySystemParameters"
        /\ ops[i].result # <<>>
        /\ ops[i].result[1].kind = "resolve"
        /\ ops[i].result[1].value =
               Obj(<<<<"os", Str("linux")>>, <<"arch", Str("x64")>>>>)

\* The reply [["tags", ["as", ["x", "y"]]]] decoded to {tags: {}}.
ArrayDecoded ==
    \E i \in DOMAIN ops :
        /\ ops[i].kind = "QuerySystemParameters"
        /\ ops[i].result # <<>>
        /\ ops[i].result[1].kind = "resolve"
        /\ ops[i].result[1].value = Obj(<<<<"tags", Obj(<<>>)>>>>)

----------------------------------------------------------------------------
(* The serials of a Bus.                                                   *)

\* The serials of the calls written so far.
Issued == {wire[i].serial : i \in 1..Len(wire)}

C21_Inv ==
    /\ wire # <<>> => wire[1].serial = 1
    /\ \A i \in 1..Len(wire) : \A j \in 1..Len(wire) :
          i < j => wire[i].serial < wire[j].serial
    /\ \A s \in Issued : s < serialCounter
    /\ DOMAIN pendingCalls \subseteq Issued
    /\ \A s \in DOMAIN pendingCalls :
          Cardinality({i \in 1..Len(wire) : wire[i].serial = s}) = 1

C21_Act ==
    /\ Len(wire') >= Len(wire)
    /\ SubSeq(wire', 1, Len(wire)) = wire
    /\ \A i \in (Len(wire) + 1)..Len(wire') :
          /\ wire'[i].serial \notin DOMAIN pendingCalls
          /\ wire'[i].serial \in DOMAIN pendingCalls'
          /\ \A s \in Issued : s < wire'[i].serial
    /\ \A s \in DOMAIN pendingCalls' \ DOMAIN pendingCalls :
          \E i \in (Len(wire) + 1)..Len(wire') : wire'[i].serial = s

\* C21: the first call of a Bus has serial 1 and every call has a serial
\* greater than every serial issued before it on that Bus; the pending
\* table has one entry per serial, each for exactly one call written; a new
\* call never takes a serial that is pending, and an entry enters the table
\* only with the call that was given its serial.
C21_Serials == []C21_Inv /\ [][C21_Act]_vars

\* C21 witness: three calls were issued, the first is no longer pending
\* (its serial is free again) and the other two are.
C21_Witness ==
    /\ Len(wire) = 3
    /\ DOMAIN pendingCalls = {2, 3}
    /\ settled[1] # <<>>

----------------------------------------------------------------------------
(* Replies and errors.                                                     *)

\* The messages of a frame that carry serial s, in order.
CarrySerial(frame, s) == SelectSeq(frame, LAMBDA msg : msg.serial = s)

\* The outcome a call is given by a message: resolved with the arguments of
\* a method return, rejected with the name and the message of an error.
OutcomeOf(outcome, msg) ==
    IF msg.messageType = "MethodReturn"
    THEN /\ outcome.kind = "resolve"
         /\ outcome.value = msg.args
    ELSE /\ outcome.kind = "reject"
         /\ outcome.value.message = "D-Bus Error"
         /\ outcome.value.errorName = msg.errorName
         /\ outcome.value.text =
                IF msg.args # <<>> /\ msg.args[1] # ""
                THEN msg.args[1] ELSE "Unknown error"

\* C22: in every state of the Bus and for every frame of replies and errors
\* that may arrive in it: a call that is pending and whose serial the frame
\* carries is settled once, as the first message with its serial says (a
\* method return resolves it with its arguments, an error rejects it with
\* the remote error name and message), and leaves the table; every other
\* call keeps its entry and is not settled; a message whose serial is not
\* pending changes nothing; the signal handlers are never changed.
C22_Replies ==
    \A frame \in ReplyFrames :
        LET w == Drain(handleMessage(World, frame)) IN
        /\ \A s \in DOMAIN settled :
              LET msgs == CarrySerial(frame, s) IN
              IF msgs # <<>> /\ s \in DOMAIN pendingCalls
              THEN /\ s \notin DOMAIN w.pendingCalls
                   /\ Len(w.settled[s]) = Len(settled[s]) + 1
                   /\ SubSeq(w.settled[s], 1, Len(settled[s])) = settled[s]
                   /\ OutcomeOf(w.settled[s][Len(w.settled[s])], msgs[1])
              ELSE /\ Len(w.settled[s]) = Len(settled[s])
                   /\ w.settled[s] = settled[s]
                   /\ (s \in DOMAIN w.pendingCalls)
                         = (s \in DOMAIN pendingCalls)
                   /\ s \in DOMAIN pendingCalls =>
                         w.pendingCalls[s] = pendingCalls[s]
        /\ w.signalHandlers = signalHandlers
        /\ (\A i \in 1..Len(frame) : frame[i].serial \notin DOMAIN pendingCalls)
              => /\ w.pendingCalls = pendingCalls
                 /\ w.wire = wire
                 /\ w.serialCounter = serialCounter

\* C22 witness: call 2 was rejected by an error reply with the remote name
\* and message while calls 1 and 3 are pending and unsettled, and a handler
\* is registered.
C22_Witness ==
    /\ DOMAIN pendingCalls = {1, 3}
    /\ settled[1] = <<>>
    /\ settled[3] = <<>>
    /\ Len(settled[2]) = 1
    /\ settled[2][1].kind = "reject"
    /\ settled[2][1].value =
           [message |-> "D-Bus Error", errorName |-> "re.frida.Error",
            text |-> "failed"]
    /\ \E key \in TestKeys : signalHandlers[key] # <<>>

----------------------------------------------------------------------------
(* Export calls.                                                           *)

\* The text of a record is an RPC call request: the array it parses to.
IsCallRequest(text) ==
    LET v == Parse(text) IN
    /\ v # SyntaxError
    /\ v.k = "arr"
    /\ Len(v.items) = 5
    /\ v.items[1] = RpcMarker
    /\ v.items[3] = Str("call")

\* The call requests among the entries of a queue that name script sc.
CallRequests(entries, sc) ==
    SelectSeq(entries, LAMBDA e : /\ e.record[2] = <<sc[2]>>
                                  /\ IsCallRequest(e.record[3]))

C23_Inv ==
    \A sc \in ScriptRefs :
        LET calls == CallRequests(posted[sc[1]], sc) IN
        /\ Len(calls) = nextRequestId[sc] - 1
        /\ \A i \in 1..Len(calls) : Parse(calls[i].record[3]).items[2] = Num(i)
        /\ pendingRequests[sc] \subseteq {ToString(i) : i \in 1..Len(calls)}

C23_Act ==
    \A sc \in ScriptRefs :
        LET id == nextRequestId[sc]
            old == posted[sc[1]]
            new == posted'[sc[1]]
        IN /\ nextRequestId'[sc] \in {id, id + 1}
           /\ nextRequestId'[sc] = id + 1 =>
                /\ Len(new) = Len(old) + 1
                /\ SubSeq(new, 1, Len(old)) = old
                /\ \E name \in ExportNames, args \in ExportArgs :
                      new[Len(new)].record =
                          Record(sc[2],
                                 Stringify(Arr(<<RpcMarker, Num(id),
                                                 Str("call"), Str(name),
                                                 Arr(args)>>)),
                                 FALSE, <<>>)
                /\ ToString(id) \notin pendingRequests[sc]
                /\ ToString(id) \in pendingRequests'[sc]
                /\ \A other \in SessionIds \ {sc[1]} :
                      posted'[other] = posted[other]

\* C23: each invocation of an export posts one record through the queue of
\* the Session that owns the Script, for the Script's handle and without
\* data, whose text is the JSON of ["frida:rpc", requestId, "call", name,
\* args]; the requestIds of a Script are 1, 2, 3, ... in the order of its
\* invocations, whatever other scripts and other posts do, so the pending
\* requests of a Script have distinct ids, all issued before.
C23_Exports == []C23_Inv /\ [][C23_Act]_vars

\* C23 witness: script 1 has invoked two exports, the first of which has
\* completed; script 2 of the same Session has invoked one, which has
\* requestId 1 as well and is pending.
C23_Witness ==
    /\ nextRequestId[<<"a", 1>>] = 3
    /\ pendingRequests[<<"a", 1>>] = {"2"}
    /\ nextRequestId[<<"a", 2>>] = 2
    /\ pendingRequests[<<"a", 2>>] = {"1"}
    /\ Len(posted["a"]) = 3

----------------------------------------------------------------------------
(* The states of a Session.                                                *)

\* The Resume calls written.
ResumeCalls == SelectSeq(wire, LAMBDA c : c.memberName = "Resume")

\* resume() called now changes nothing.
ResumeIsNoOp(sid) ==
    LET w == Drain(Session_resume(World, sid)) IN
    /\ w.state = state
    /\ w.lastRxBatchId = lastRxBatchId
    /\ w.wire = wire
    /\ w.pendingCalls = pendingCalls
    /\ w.pendingMessages = pendingMessages
    /\ w.pendingDeliveries = pendingDeliveries

C24_Inv ==
    /\ \A sid \in SessionIds :
          /\ state[sid] \in {"none", "attached", "detached"}
          /\ state[sid] # "none" => ResumeIsNoOp(sid)
    /\ ResumeCalls = <<>>

C24_Act ==
    \A sid \in SessionIds :
        /\ state'[sid] # state[sid] =>
              /\ state[sid] = "attached"
              /\ state'[sid] = "detached"
        /\ state[sid] = "detached" => state'[sid] = "detached"

\* C24: a Session is attached or detached and never interrupted; the only
\* change of state is from attached to detached, and a detached Session
\* stays detached; resume(), in whichever state it is called, writes no
\* Resume call and changes neither the state nor lastRxBatchId.
C24_Interrupted == []C24_Inv /\ [][C24_Act]_vars

\* C24 witness: the Session has received batch 2 and has lost its
\* connection since: it is detached, not interrupted, and resume() has
\* nothing to resume.
C24_Witness ==
    /\ state["a"] = "detached"
    /\ lastRxBatchId["a"] = 2
    /\ transport = "closed"
    /\ Len(detachedLog["a"]) = 1
    /\ detachedLog["a"][1].reason = ConnectionTerminated
    /\ ResumeIsNoOp("a")

----------------------------------------------------------------------------
(* Posting after the detach.                                               *)

\* C25: once a Session is detached no step writes a PostMessages call for
\* it: neither a post() on the detached Session or from one of its
\* destroyed scripts, nor the completion of a delivery that was in flight
\* when it detached.
C25_NoPostAfterDetach ==
    [][\A sid \in SessionIds :
          state[sid] = "detached" =>
              Len(PostMessagesCalls(sid))' = Len(PostMessagesCalls(sid))]_vars

----------------------------------------------------------------------------
(* The registry of a detached Session.                                     *)

\* The Session has no script in its registry and none that is not destroyed.
NoLiveScript(sid) ==
    /\ scripts[sid] = <<>>
    /\ \A h \in Handles : scriptState[<<sid, h>>] \in {"none", "destroyed"}

\* The step that detaches a Session leaves it without a live script.
DetachClears ==
    [][\A sid \in SessionIds :
          (state[sid] = "attached" /\ state'[sid] = "detached") =>
              NoLiveScript(sid)']_vars

\* C26: a detached Session has an empty registry and every Script it has
\* created is destroyed, also when createScript() is called after the
\* detach or is answered after it.
C26_DetachedRegistry ==
    \A sid \in SessionIds : state[sid] = "detached" => NoLiveScript(sid)

\* A detached Session with a script in its registry that is not destroyed.
LiveScriptAfterDetach ==
    \E sid \in SessionIds : \E h \in Handles :
        /\ state[sid] = "detached"
        /\ IndexOf(scripts[sid], h) > 0
        /\ scriptState[<<sid, h>>] = "created"

----------------------------------------------------------------------------
(* The registry after unload().                                            *)

\* The "destroyed" event has reached the listeners of the Script itself: it
\* is destroyed, notified once, and its services no longer listen.
ServicesNotified ==
    \A sc \in ScriptRefs :
        scriptState[sc] = "destroyed" =>
            /\ destroyedCount[sc] = 1
            /\ IndexOf(listeners[sc].destroyed, OnDestroyed) = 0
            /\ IndexOf(listeners[sc].message, OnMessage) = 0

\* C27: a Script destroyed by unload() is not in the registry of its
\* Session (the Session's "destroyed" listener has run and is gone), and no
\* record addressed to its handle reaches a user message handler of it.
C27_Removed ==
    \A sc \in ScriptRefs :
        scriptState[sc] = "destroyed" =>
            /\ IndexOf(scripts[sc[1]], sc[2]) = 0
            /\ IndexOf(listeners[sc].destroyed, SessionOnce) = 0
            /\ \A i \in 1..Len(userLog) : userLog[i].script # sc

\* A record addressed to an unloaded Script has been delivered to a user
\* message handler.
DeliveredAfterUnload ==
    \E sc \in ScriptRefs :
        /\ scriptState[sc] = "destroyed"
        /\ state[sc[1]] = "attached"
        /\ IndexOf(scripts[sc[1]], sc[2]) > 0
        /\ \E i \in 1..Len(userLog) : userLog[i].script = sc

----------------------------------------------------------------------------
(* The order of frames.                                                    *)

\* The frames emitted so far are the first frames received, in the order
\* of their arrival.
InArrivalOrder ==
    \A i \in 1..Len(ws.emitted) : ws.emitted[i] = i

\* Frames that arrive as ArrayBuffers are passed to the Bus in the step of
\* their arrival, each once; frames that arrive as Blobs are passed to the
\* Bus once each, when their read completes.
EmittedOnce ==
    /\ \A i \in 1..Len(ws.emitted) : \A j \in 1..Len(ws.emitted) :
          i # j => ws.emitted[i] # ws.emitted[j]
    /\ Len(ws.emitted) + Len(ws.reads) = ws.received
    /\ ws.binaryType = "arraybuffer" => InArrivalOrder /\ ws.reads = <<>>

\* C28: the frames are handled by the Bus in the order of their arrival,
\* whether they arrive as ArrayBuffers or as Blobs.
C28_ArrivalOrder == InArrivalOrder

\* Frame 2 was handled by the Bus while the read of frame 1 is pending.
Overtaken ==
    /\ ws.binaryType = "blob"
    /\ ws.emitted = <<2>>
    /\ Len(ws.reads) = 1
    /\ ws.reads[1].n = 1
    /\ handlerLog # <<>>

----------------------------------------------------------------------------
(* Demultiplexing.                                                         *)

C29_Act ==
    \A sid \in SessionIds :
        (/\ Len(lastSignals') = 1
         /\ lastSignals'[1].objectPath = AgentPath(sid)
         /\ lastSignals'[1].memberName = "Message") =>
            /\ \A i \in 1..Len(logLog') : logLog'[i].script[1] = sid
            /\ logLog' = ExpectedLogs(sid, scripts[sid],
                                      lastSignals'[1].args[1])
            /\ lastRxBatchId'[sid] = lastSignals'[1].args[2]
            /\ \A other \in SessionIds \ {sid} :
                  /\ lastRxBatchId'[other] = lastRxBatchId[other]
                  /\ scripts'[other] = scripts[other]
                  /\ state'[other] = state[other]

\* C29: with two Sessions attached over one connection, a Message signal on
\* the agent path of session X is dispatched to the scripts in the registry
\* of the Session with id X, also when the other Session has a script with
\* the same handle, and to no script of the other Session; it sets
\* lastRxBatchId of Session X and leaves the other Session as it is.
C29_Demux == [][C29_Act]_vars

\* C29 witness: both Sessions have a script with handle 1; batch 2 for
\* session "b" arrived after batch 1 for session "a": the log record went
\* to the script of "b", and each Session holds its own batch id.
C29_Witness ==
    /\ sessions = {"a", "b"}
    /\ IndexOf(scripts["a"], 1) > 0
    /\ IndexOf(scripts["b"], 1) > 0
    /\ Len(lastSignals) = 1
    /\ lastSignals[1].objectPath = AgentPath("b")
    /\ lastRxBatchId = [a |-> 1, b |-> 2]
    /\ logLog = <<[script |-> <<"b", 1>>, level |-> Str("info"),
                   text |-> Str("text")]>>

----------------------------------------------------------------------------
(* The registry of the Client.                                             *)

\* C30: the registry of the Client holds no detached Session: a Session
\* leaves it when it detaches, by detach(), by the remote or by the loss of
\* the connection.
C30_Registry == \A sid \in sessions : state[sid] # "detached"

\* A Session that detach() has detached, notification included, is in the
\* registry of the Client.
DetachedInRegistry ==
    \E sid \in sessions :
        /\ state[sid] = "detached"
        /\ Len(detachedLog[sid]) = 1
        /\ detachedLog[sid][1].reason = ApplicationRequested

\* The registry of the Client never loses a Session.
RegistryGrows == [][sessions \subseteq sessions']_vars

----------------------------------------------------------------------------
(* The memoized connection attempt after a failure.                        *)

\* Transport t failed before it opened: its error event rejected the
\* attempt, the "open" listener never ran (no "close" listener, and no
\* Authenticate call was written), and it may have closed since.
FailedBeforeOpen(t) ==
    /\ Ws(t) \in {"failed", "closed"}
    /\ ~links[t].closeListener
    /\ links[t].attempt # <<>>
    /\ links[t].attempt[1].kind = "reject"
    /\ links[t].attempt[1].value = ErrorEvent
    /\ Bus(World, t).serialCounter = 1

\* The Authenticate call of transport t failed and t has not closed.
AuthenticationFailed(t) ==
    /\ links[t].closeListener
    /\ links[t].attempt # <<>>
    /\ links[t].attempt[1].kind = "reject"
    /\ links[t].attempt[1].value # ErrorEvent

\* Every operation that took attempt t has received what settled it.
SameOutcome(t) ==
    \A i \in 1..Len(ops) :
        ops[i].attempt = t => ops[i].connection = links[t].attempt

\* Attempt t is the memoized one, no transport was created after it, no
\* operation holds a later attempt, and every operation that took attempt
\* t has received its failure and has failed with it.
StaysMemoized(t) ==
    /\ hostConnectionRequest = t
    /\ \A u \in Transports : u > t => Ws(u) = "none"
    /\ \A i \in 1..Len(ops) : ops[i].attempt <= t
    /\ SameOutcome(t)
    /\ \A i \in 1..Len(ops) :
          ops[i].attempt = t => ops[i].result = links[t].attempt

C31_Inv ==
    \A t \in Transports :
        FailedBeforeOpen(t) \/ AuthenticationFailed(t) => StaysMemoized(t)

\* A step that clears the slot is the close event of the memoized
\* transport, which had opened: it runs the once("close") listener.
C31_Act ==
    hostConnectionRequest # 0 /\ hostConnectionRequest' = 0
    => \E t \in Transports :
          /\ t = hostConnectionRequest
          /\ Ws(t) \in {"open", "failed"}
          /\ links[t].closeListener
          /\ ~links'[t].closeListener
          /\ Ws(t)' = "closed"

\* C31: _hostConnectionRequest is cleared only by the close event of a
\* transport that had opened. After a transport error before open the failed
\* attempt stays memoized, every later operation receives that failure and
\* no new transport is created; after a failed Authenticate the failed
\* attempt stays memoized while the transport is not closed.
C31_Memoized == []C31_Inv /\ [][C31_Act]_vars

\* Transport 1 failed before it opened and has closed, and two operations
\* have failed with its error event.
C31_Witness ==
    /\ FailedBeforeOpen(1)
    /\ Ws(1) = "closed"
    /\ Len(ops) = 2
    /\ \A i \in 1..2 : ops[i].result = links[1].attempt

\* An operation has failed with the error reply to Authenticate, on a
\* transport that is still open.
AuthenticationFailureKept ==
    \E t \in Transports :
        /\ AuthenticationFailed(t)
        /\ Ws(t) = "open"
        /\ \E i \in 1..Len(ops) :
              /\ ops[i].attempt = t
              /\ ops[i].result = links[t].attempt

----------------------------------------------------------------------------
(* A handler of the user that throws.                                      *)

\* The last step handled one Message signal for Session sid.
BatchStep(sid, signals) ==
    /\ Len(signals) = 1
    /\ signals[1].objectPath = AgentPath(sid)
    /\ signals[1].memberName = "Message"

\* Record r names a script of the registry and carries the ok reply to
\* request 1, which is pending.
RepliesToPending(sid, r) ==
    /\ IndexOf(scripts[sid], r[2][1]) > 0
    /\ r[3] = Stringify(MsgRpcOk(1))
    /\ "1" \in pendingRequests[<<sid, r[2][1]>>]

\* Every record of the batch was dispatched to its script: the log handler
\* was called for every log record, and every reply to a pending export
\* call completed the call.
AllDispatched(sid, records) ==
    /\ logLog' = ExpectedLogs(sid, scripts[sid], records)
    /\ \A i \in 1..Len(records) :
          RepliesToPending(sid, records[i])
          => "1" \notin pendingRequests'[<<sid, records[i][2][1]>>]

C32_Act ==
    \A sid \in SessionIds :
        BatchStep(sid, lastSignals')
        => AllDispatched(sid, lastSignals'[1].args[1])

\* C32: a handler of the user that throws while one record of a batch is
\* handled does not stop the batch: the records behind it are dispatched to
\* their scripts all the same.
C32_Confined == [][C32_Act]_vars

\* The records dispatched when the log handler of a script may throw: those
\* up to and including the first log record given to a handler that throws.
RECURSIVE UntilThrow(_, _)
UntilThrow(sid, records) ==
    IF records = <<>> THEN <<>>
    ELSE LET r == Head(records)
             sc == <<sid, r[2][1]>>
             thrown ==
                 /\ ExpectedLogs(sid, scripts[sid], <<r>>) # <<>>
                 /\ logHandler[sc] \in ThrowingLogHandlers
         IN IF thrown THEN <<r>>
            ELSE <<r>> \o UntilThrow(sid, Tail(records))

\* What holds: the exception ends the batch. The records up to the one whose
\* log handler throws are dispatched, those behind it are dropped: no log
\* handler is called for them and no export call is completed by them.
ThrowEndsBatch ==
    [][\A sid \in SessionIds :
          BatchStep(sid, lastSignals')
          => LET records == lastSignals'[1].args[1]
                 done == UntilThrow(sid, records)
             IN /\ logLog' = ExpectedLogs(sid, scripts[sid], done)
                /\ lastRxBatchId'[sid] = lastSignals'[1].args[2]
                /\ \A h \in Handles :
                      pendingRequests'[<<sid, h>>] # pendingRequests[<<sid, h>>]
                      => \E i \in 1..Len(done) :
                            /\ done[i][2] = <<h>>
                            /\ RepliesToPending(sid, done[i])]_vars

\* The log handler of script 1 threw on the first record of a batch whose
\* second record is the reply to the pending export call of script 2: the
\* call is still pending.
ReplyDropped ==
    /\ BatchStep("a", lastSignals)
    /\ Len(lastSignals[1].args[1]) = 2
    /\ lastSignals[1].args[1][1] = Record(1, Stringify(MsgLog), FALSE, <<>>)
    /\ lastSignals[1].args[1][2] =
           Record(2, Stringify(MsgRpcOk(1)), FALSE, <<>>)
    /\ logHandler[<<"a", 1>>] \in ThrowingLogHandlers
    /\ Len(logLog) = 1
    /\ "1" \in pendingRequests[<<"a", 2>>]

\* Every user handler connected to the script of a record of the batch is
\* called with it, those connected after a handler that throws included.
ListenersStillRun ==
    [][\A sid \in SessionIds :
          BatchStep(sid, lastSignals')
          => \A i \in 1..Len(lastSignals'[1].args[1]) :
                LET r == lastSignals'[1].args[1][i]
                    sc == <<sid, r[2][1]>>
                IN (IndexOf(scripts[sid], r[2][1]) > 0
                    /\ r[3] = Stringify(MsgHello))
                   => \A j \in 1..Len(listeners[sc].message) :
                         listeners[sc].message[j].k = "proxy"
                         => \E n \in 1..Len(userLog') :
                               userLog'[n].handler =
                                   listeners[sc].message[j].id]_vars

----------------------------------------------------------------------------
(* unload() whose DestroyScript call fails.                                *)

\* The serials of the DestroyScript calls unload() has made for script sc.
UnloadCalls(sc) ==
    {s \in 1..Len(wire) :
        /\ wire[s].memberName = "DestroyScript"
        /\ wire[s].objectPath = AgentPath(sc[1])
        /\ wire[s].args = << <<sc[2]>> >>}

\* The failures of a call: the error reply of the remote and the timeout.
CallFailures ==
    {DBusError("re.frida.Error", <<"failed">>), TimeoutError}

\* No unload() of sc has succeeded: each of its calls is pending or failed.
NoneSucceeded(sc, outcomes) ==
    \A s \in UnloadCalls(sc) :
        outcomes[s] # <<>> => outcomes[s][1].kind = "reject"

\* The Script is as createScript left it: created, never destroyed, in the
\* registry of its Session, with the listeners of its services registered.
Untouched(sc) ==
    /\ scriptState[sc] = "created"
    /\ destroyedCount[sc] = 0
    /\ IndexOf(scripts[sc[1]], sc[2]) > 0
    /\ IndexOf(listeners[sc].destroyed, OnDestroyed) > 0
    /\ IndexOf(listeners[sc].message, OnMessage) > 0

C33_Inv ==
    \A sc \in ScriptRefs :
        scriptState[sc] # "none" /\ NoneSucceeded(sc, settled)
        => Untouched(sc)

\* The step in which a DestroyScript call for sc fails gives the call that
\* failure, which `await` rethrows out of unload(), and changes nothing of
\* the Script.
C33_Fails ==
    \A sc \in ScriptRefs : \A s \in UnloadCalls(sc) :
        (/\ settled[s] = <<>>
         /\ settled'[s] # <<>>
         /\ settled'[s][1].kind = "reject")
        => /\ Len(settled'[s]) = 1
           /\ settled'[s][1].value \in CallFailures
           /\ scriptState'[sc] = scriptState[sc]
           /\ destroyedCount'[sc] = destroyedCount[sc]
           /\ scripts'[sc[1]] = scripts[sc[1]]
           /\ listeners'[sc] = listeners[sc]
           /\ pendingRequests'[sc] = pendingRequests[sc]
           /\ rpcLog'[sc] = rpcLog[sc]

\* After a failed unload() the ok reply to a pending export call resolves
\* the call.
C33_Resolves ==
    \A sc \in ScriptRefs : \A i \in RequestIds :
        (/\ UnloadCalls(sc) # {}
         /\ NoneSucceeded(sc, settled)
         /\ \E s \in UnloadCalls(sc) : settled[s] # <<>>
         /\ ToString(i) \in pendingRequests[sc]
         /\ Arrived(sc, MsgRpcOk(i), lastSignals'))
        => /\ rpcLog'[sc][ToString(i)] = <<RpcOkOutcome>>
           /\ ToString(i) \notin pendingRequests'[sc]

\* C33: when the DestroyScript call of unload() fails, by an error reply or
\* by the timeout, unload() rejects with that failure and the Script is left
\* as it was: created, no "destroyed" emitted, in the registry of the
\* Session, and its pending export calls are resolved by later replies.
C33_UnloadFails == []C33_Inv /\ [][C33_Fails /\ C33_Resolves]_vars

\* C33 witness: script 1 invoked an export, then unload() failed, then the
\* ok reply to the export call arrived and resolved it; the Script is
\* created and in the registry.
C33_Witness ==
    /\ \E s \in UnloadCalls(<<"a", 1>>) :
          /\ settled[s] # <<>>
          /\ settled[s][1].kind = "reject"
          /\ \E p \in 1..(s - 1) : wire[p].memberName = "PostMessages"
    /\ NoneSucceeded(<<"a", 1>>, settled)
    /\ Arrived(<<"a", 1>>, MsgRpcOk(1), lastSignals)
    /\ rpcLog[<<"a", 1>>]["1"] = <<RpcOkOutcome>>
    /\ Untouched(<<"a", 1>>)

----------------------------------------------------------------------------
(* The pending-call table drains.                                          *)

\* Every pending call is settled, once, and leaves the table.
C34_Settles ==
    \A s \in Serials :
        (s \in DOMAIN pendingCalls)
        ~> (s \notin DOMAIN pendingCalls /\ Len(settled[s]) = 1)

\* A call leaves the table in the step that settles it; once the transport
\* has closed that step is the timeout.
C34_Act ==
    \A s \in Serials :
        (s \in DOMAIN pendingCalls /\ s \notin DOMAIN pendingCalls')
        => /\ Len(settled[s]) = 0
           /\ Len(settled'[s]) = 1
           /\ transport # "open"
              => /\ settled'[s][1].kind = "reject"
                 /\ settled'[s][1].value = TimeoutError

\* A pending call stays pending across the close of the transport.
C34_Close ==
    (transport = "open" /\ transport' # "open")
    => pendingCalls' = pendingCalls /\ settled' = settled

PendingAtClose == transport = "closed" /\ DOMAIN pendingCalls # {}

====
